---- MODULE Spec2Model ----
(***************************************************************************)
(* Verification model of Geometry.cpp (B-Human code release).              *)
(*                                                                         *)
(* The geometry functions are pure.  Each one is an operator that computes *)
(* its result the way the C++ code does; a specification draws the         *)
(* arguments of one function from a bounded grid (Init), and its action    *)
(* applies the function once (pc: "call" -> "done").                       *)
(*                                                                         *)
(* Numbers: the arguments are floats holding small integers.  On these     *)
(* +, - and * are exact in binary32; a quotient is kept as an exact        *)
(* rational <<n, d>> and a square root as its exact radicand, so the model *)
(* is the real-number semantics of the code (no rounding).  A division by  *)
(* zero and a square root of a negative number yield the IEEE result NaN   *)
(* and are recorded in the result (divByZero).                             *)
(***************************************************************************)
EXTENDS Integers, Sequences, FiniteSets, TLC

VARIABLES fn, in, out, pc

vars == <<fn, in, out, pc>>

(***************************************************************************)
(* Bounds of the argument grids.                                           *)
(***************************************************************************)
MaxCoord == 2

Coords == 0..MaxCoord

Points == [x : Coords, y : Coords]

\* polygon vertices lie on the even points of the finer grid of query points
EvenPoints == {[x |-> 2 * p.x, y |-> 2 * p.y] : p \in Points}

QueryPoints == [x : 0..(2 * MaxCoord), y : 0..(2 * MaxCoord)]

Vec(a, b) == [x |-> a, y |-> b]

NoOut == [ret |-> "none"]

(***************************************************************************)
(* Exact arithmetic.                                                       *)
(***************************************************************************)
Abs(a) == IF a < 0 THEN -a ELSE a

Sgn(a) == IF a < 0 THEN -1 ELSE IF a > 0 THEN 1 ELSE 0

RECURSIVE GCD(_, _)
GCD(a, b) == IF b = 0 THEN a ELSE GCD(b, a % b)

\* the rational n/d (d # 0) in lowest terms with a positive denominator
Rat(n, d) ==
  LET g == GCD(Abs(n), Abs(d))
      s == IF d < 0 THEN -1 ELSE 1
  IN  <<(s * n) \div g, (s * d) \div g>>

RInt(a) == <<a, 1>>

RAdd(p, q) == Rat(p[1] * q[2] + q[1] * p[2], p[2] * q[2])

RSub(p, q) == Rat(p[1] * q[2] - q[1] * p[2], p[2] * q[2])

RMul(p, q) == Rat(p[1] * q[1], p[2] * q[2])

\* p / q for q # 0
RDiv(p, q) == Rat(p[1] * q[2], p[2] * q[1])

RLt(p, q) == p[1] * q[2] < q[1] * p[2]

RLe(p, q) == p[1] * q[2] <= q[1] * p[2]

REq(p, q) == p[1] * q[2] = q[1] * p[2]

\* cross and dot product of integer vectors (used by the properties)
Cross(u, v) == u.x * v.y - u.y * v.x

Dot(u, v) == u.x * v.x + u.y * v.y

Minus(p, q) == Vec(p.x - q.x, p.y - q.y)

(***************************************************************************)
(* Geometry::ccw                                                           *)
(***************************************************************************)
\* mutant: the length comparison is strict (p2 = p1 is no longer "between")
ccwStrictLength(p0, p1, p2) ==
  LET dx1 == p1.x - p0.x
      dy1 == p1.y - p0.y
      dx2 == p2.x - p0.x
      dy2 == p2.y - p0.y
  IN  IF dx1 * dy2 > dy1 * dx2 THEN 1
      ELSE IF dx1 * dy2 < dy1 * dx2 THEN -1
      ELSE IF (dx1 * dx2 < 0) \/ (dy1 * dy2 < 0) THEN -1
      ELSE IF (dx1 * dx1 + dy1 * dy1) > (dx2 * dx2 + dy2 * dy2) THEN 0
      ELSE 1

ccw(p0, p1, p2) ==
  LET dx1 == p1.x - p0.x
      dy1 == p1.y - p0.y
      dx2 == p2.x - p0.x
      dy2 == p2.y - p0.y
  IN  IF dx1 * dy2 > dy1 * dx2 THEN 1
      ELSE IF dx1 * dy2 < dy1 * dx2 THEN -1
      ELSE IF (dx1 * dx2 < 0) \/ (dy1 * dy2 < 0) THEN -1
      ELSE IF (dx1 * dx1 + dy1 * dy1) >= (dx2 * dx2 + dy2 * dy2) THEN 0
      ELSE 1

InitCcw ==
  /\ fn = "ccw"
  /\ in \in [p0 : Points, p1 : Points, p2 : Points]
  /\ out = NoOut
  /\ pc = "call"

CallCcw ==
  /\ pc = "call"
  /\ fn = "ccw"
  /\ out' = [ret |-> ccw(in.p0, in.p1, in.p2)]
  /\ pc' = "done"
  /\ UNCHANGED <<fn, in>>

SpecCcw == InitCcw /\ [][CallCcw]_vars

\* p lies on the closed segment from a to b
OnSegment(a, b, p) ==
  /\ Cross(Minus(b, a), Minus(p, a)) = 0
  /\ (IF a.x <= b.x THEN a.x <= p.x /\ p.x <= b.x ELSE b.x <= p.x /\ p.x <= a.x)
  /\ (IF a.y <= b.y THEN a.y <= p.y /\ p.y <= b.y ELSE b.y <= p.y /\ p.y <= a.y)

\* C1: ccw returns +1 for a positive cross product of (p1-p0, p2-p0), -1 for
\* a negative one; for collinear points it returns 0 exactly when p2 lies on
\* the closed segment p0..p1, -1 when p2 lies on the opposite side of p0 from
\* p1, and +1 when p2 lies beyond p1.
C1_CcwContract ==
  (fn = "ccw" /\ pc = "done") =>
    LET c == Cross(Minus(in.p1, in.p0), Minus(in.p2, in.p0))
    IN  /\ c > 0 => out.ret = 1
        /\ c < 0 => out.ret = -1
        /\ c = 0 =>
             /\ out.ret = 0 <=> OnSegment(in.p0, in.p1, in.p2)
             /\ Dot(Minus(in.p1, in.p0), Minus(in.p2, in.p0)) < 0 => out.ret = -1
             /\ Dot(Minus(in.p0, in.p1), Minus(in.p2, in.p1)) < 0 => out.ret = 1

\* C1 witness: p2 coincides with the far endpoint p1 of a proper segment
C1_Witness ==
  /\ fn = "ccw" /\ pc = "done"
  /\ in.p0 # in.p1 /\ in.p2 = in.p1
  /\ out.ret = 0

(***************************************************************************)
(* Lines.  A Line is [base, direction]; a direction is the vector          *)
(* (x, y) / sqrt(len2): len2 = 1 for a direction given by the caller, and  *)
(* len2 = x*x + y*y for the result of normalized().                        *)
(***************************************************************************)
MaxBase == 1

MaxDir == 1

Bases == [x : 0..MaxBase, y : 0..MaxBase]

Dirs == [x : (-MaxDir)..MaxDir, y : (-MaxDir)..MaxDir, len2 : {1}]

Lines == [base : Bases, direction : Dirs]

Line(b, d) == [base |-> b, direction |-> d]

\* a caller-given direction vector
Dir(v) == [x |-> v.x, y |-> v.y, len2 |-> 1]

\* Eigen's normalized(): v / |v|, and v itself when v is the zero vector
normalized(v) ==
  IF v.x = 0 /\ v.y = 0 THEN [x |-> 0, y |-> 0, len2 |-> 1]
  ELSE [x |-> v.x, y |-> v.y, len2 |-> v.x * v.x + v.y * v.y]

\* a point with rational coordinates
RPoint(a, b) == [x |-> a, y |-> b]

RPt(p) == RPoint(RInt(p.x), RInt(p.y))

RPtEq(p, q) == REq(p.x, q.x) /\ REq(p.y, q.y)

\* the value an output parameter holds before the call
PriorPoint == RPoint(<<-7, 2>>, <<-9, 2>>)

(***************************************************************************)
(* Geometry::getIntersectionOfLines                                        *)
(* The factors 1/sqrt(len2) of the two directions cancel from both sides   *)
(* of the parallel test and from the quotients, so x and y stand for the   *)
(* directions.                                                             *)
(***************************************************************************)
\* mutant: the numerator of the y quotient is not negated
getIntersectionOfLinesYSign(line1, line2, intersection) ==
  LET b1 == line1.base
      d1 == line1.direction
      b2 == line2.base
      d2 == line2.direction
  IN  IF d1.y * d2.x = d1.x * d2.y
      THEN [ret |-> FALSE, intersection |-> intersection]
      ELSE [ret |-> TRUE,
            intersection |-> RPoint(
              RAdd(RInt(b1.x),
                   Rat(d1.x * (b1.y * d2.x - b2.y * d2.x + (-b1.x + b2.x) * d2.y),
                       (-d1.y) * d2.x + d1.x * d2.y)),
              RAdd(RInt(b1.y),
                   Rat(d1.y * (b1.y * d2.x - b2.y * d2.x + (-b1.x + b2.x) * d2.y),
                       d1.y * d2.x - d1.x * d2.y)))]

getIntersectionOfLines(line1, line2, intersection) ==
  LET b1 == line1.base
      d1 == line1.direction
      b2 == line2.base
      d2 == line2.direction
  IN  IF d1.y * d2.x = d1.x * d2.y
      THEN [ret |-> FALSE, intersection |-> intersection]
      ELSE [ret |-> TRUE,
            intersection |-> RPoint(
              RAdd(RInt(b1.x),
                   Rat(d1.x * (b1.y * d2.x - b2.y * d2.x + (-b1.x + b2.x) * d2.y),
                       (-d1.y) * d2.x + d1.x * d2.y)),
              RAdd(RInt(b1.y),
                   Rat(d1.y * ((-b1.y) * d2.x + b2.y * d2.x + (b1.x - b2.x) * d2.y),
                       d1.y * d2.x - d1.x * d2.y)))]

InitLines ==
  /\ fn = "getIntersectionOfLines"
  /\ in \in [line1 : Lines, line2 : Lines, intersection : {PriorPoint}]
  /\ out = NoOut
  /\ pc = "call"

CallLines ==
  /\ pc = "call"
  /\ fn = "getIntersectionOfLines"
  /\ out' = getIntersectionOfLines(in.line1, in.line2, in.intersection)
  /\ pc' = "done"
  /\ UNCHANGED <<fn, in>>

SpecLines == InitLines /\ [][CallLines]_vars

\* the rational point p lies on the infinite line through the integer point
\* b along the integer vector d:  cross(p - b, d) = 0
OnLine(p, b, d) ==
  REq(RMul(RSub(p.x, RInt(b.x)), RInt(d.y)), RMul(RSub(p.y, RInt(b.y)), RInt(d.x)))

\* C2: getIntersectionOfLines returns false iff the cross product of the two
\* directions is zero, and then leaves the output point unchanged; otherwise
\* it returns true and the point written lies on both infinite lines.
C2_LinesContract ==
  (fn = "getIntersectionOfLines" /\ pc = "done") =>
    LET l1 == in.line1
        l2 == in.line2
    IN  /\ out.ret = FALSE <=> Cross(l1.direction, l2.direction) = 0
        /\ out.ret = FALSE => out.intersection = in.intersection
        /\ out.ret = TRUE =>
             /\ OnLine(out.intersection, l1.base, l1.direction)
             /\ OnLine(out.intersection, l2.base, l2.direction)

\* C2 witness: two non-parallel lines with different bases whose intersection
\* is neither base
C2_Witness ==
  /\ fn = "getIntersectionOfLines" /\ pc = "done"
  /\ out.ret = TRUE
  /\ ~RPtEq(out.intersection, RPt(in.line1.base))
  /\ ~RPtEq(out.intersection, RPt(in.line2.base))

(***************************************************************************)
(* Values with a square root: [r, c, q] is the real number r + c*sqrt(q)   *)
(* for rationals r, c and q >= 0; nan marks the IEEE value NaN.            *)
(***************************************************************************)
Surd(r, c, q) == [r |-> r, c |-> c, q |-> q, nan |-> FALSE]

SRat(r) == Surd(r, RInt(0), RInt(0))

NaN == [r |-> RInt(0), c |-> RInt(0), q |-> RInt(0), nan |-> TRUE]

\* a = b * sqrt(q) for rationals a, b and q >= 0
EqTimesSqrt(a, b, q) ==
  IF b[1] = 0 \/ q[1] = 0 THEN a[1] = 0
  ELSE Sgn(a[1]) = Sgn(b[1]) /\ REq(RMul(a, a), RMul(RMul(b, b), q))

\* a < b * sqrt(q) for rationals a, b and q >= 0
LtTimesSqrt(a, b, q) ==
  LET bb == RMul(RMul(b, b), q)
      aa == RMul(a, a)
  IN  IF b[1] = 0 \/ q[1] = 0 THEN a[1] < 0
      ELSE IF b[1] > 0 THEN a[1] < 0 \/ RLt(aa, bb)
      ELSE a[1] < 0 /\ RLt(bb, aa)

\* operator== of two floats (false for NaN); both over the same radicand,
\* or one of them rational
SEq(s, t) ==
  /\ ~s.nan
  /\ ~t.nan
  /\ EqTimesSqrt(RSub(s.r, t.r), RSub(t.c, s.c), IF s.c[1] = 0 THEN t.q ELSE s.q)

\* operator< of two floats (false for NaN)
SLt(s, t) ==
  /\ ~s.nan
  /\ ~t.nan
  /\ LtTimesSqrt(RSub(s.r, t.r), RSub(t.c, s.c), IF s.c[1] = 0 THEN t.q ELSE s.q)

SPoint(a, b) == [x |-> a, y |-> b]

SPt(p) == SPoint(SRat(RInt(p.x)), SRat(RInt(p.y)))

NaNPoint == SPoint(NaN, NaN)

\* Vector2f::operator==
SPtEq(p, q) == SEq(p.x, q.x) /\ SEq(p.y, q.y)

\* the value an output parameter holds before the call
PriorSPoint == SPoint(SRat(<<-7, 2>>), SRat(<<-9, 2>>))

\* sqrt(n) > v and sqrt(n) < v for integers n >= 0 and v
SqrtGt(n, v) == v < 0 \/ n > v * v

SqrtLt(n, v) == v > 0 /\ n < v * v

(***************************************************************************)
(* Geometry::getIntersectionOfCircles                                      *)
(***************************************************************************)
MaxRadius == 2

Circles == [center : Points, radius : 0..MaxRadius]

\* mutant: the check for one circle containing the other is missing
getIntersectionOfCirclesNoContainment(c0, c1, p1, p2) ==
  LET r0 == c0.radius
      r1 == c1.radius
      dx == c1.center.x - c0.center.x
      dy == c1.center.y - c0.center.y
      \* d = sqrt(dd)
      dd == dy * dy + dx * dx
      unchanged == [ret |-> 0, p1 |-> p1, p2 |-> p2, divByZero |-> FALSE]
  IN  IF SqrtGt(dd, r0 + r1) THEN unchanged
      ELSE IF FALSE THEN unchanged
      ELSE IF dd = 0
      \* a = .../(2.0f * d) with d = 0: here r0 = r1, so a = 0/0
      THEN [ret |-> 2, p1 |-> NaNPoint, p2 |-> NaNPoint, divByZero |-> TRUE]
      ELSE
        LET k == r0 * r0 - r1 * r1 + dd
            \* a = k / (2 d), so a / d = k / (2 dd) and a * a = k * k / (4 dd)
            x2 == RAdd(RInt(c0.center.x), Rat(dx * k, 2 * dd))
            y2 == RAdd(RInt(c0.center.y), Rat(dy * k, 2 * dd))
            \* h = sqrt(hh)
            hh == RSub(RInt(r0 * r0), Rat(k * k, 4 * dd))
            \* h / d = sqrt(hh / dd)
            q == RDiv(hh, RInt(dd))
        IN  IF RLt(hh, RInt(0))
            THEN [ret |-> 2, p1 |-> NaNPoint, p2 |-> NaNPoint, divByZero |-> FALSE]
            ELSE
              LET np1 == SPoint(Surd(x2, RInt(-dy), q), Surd(y2, RInt(dx), q))
                  np2 == SPoint(Surd(x2, RInt(dy), q), Surd(y2, RInt(-dx), q))
              IN  [ret |-> IF SPtEq(np1, np2) THEN 1 ELSE 2,
                   p1 |-> np1, p2 |-> np2, divByZero |-> FALSE]

getIntersectionOfCircles(c0, c1, p1, p2) ==
  LET r0 == c0.radius
      r1 == c1.radius
      dx == c1.center.x - c0.center.x
      dy == c1.center.y - c0.center.y
      \* d = sqrt(dd)
      dd == dy * dy + dx * dx
      unchanged == [ret |-> 0, p1 |-> p1, p2 |-> p2, divByZero |-> FALSE]
  IN  IF SqrtGt(dd, r0 + r1) THEN unchanged
      ELSE IF SqrtLt(dd, Abs(r0 - r1)) THEN unchanged
      ELSE IF dd = 0
      \* a = .../(2.0f * d) with d = 0: here r0 = r1, so a = 0/0
      THEN [ret |-> 2, p1 |-> NaNPoint, p2 |-> NaNPoint, divByZero |-> TRUE]
      ELSE
        LET k == r0 * r0 - r1 * r1 + dd
            \* a = k / (2 d), so a / d = k / (2 dd) and a * a = k * k / (4 dd)
            x2 == RAdd(RInt(c0.center.x), Rat(dx * k, 2 * dd))
            y2 == RAdd(RInt(c0.center.y), Rat(dy * k, 2 * dd))
            \* h = sqrt(hh)
            hh == RSub(RInt(r0 * r0), Rat(k * k, 4 * dd))
            \* h / d = sqrt(hh / dd)
            q == RDiv(hh, RInt(dd))
        IN  IF RLt(hh, RInt(0))
            THEN [ret |-> 2, p1 |-> NaNPoint, p2 |-> NaNPoint, divByZero |-> FALSE]
            ELSE
              LET np1 == SPoint(Surd(x2, RInt(-dy), q), Surd(y2, RInt(dx), q))
                  np2 == SPoint(Surd(x2, RInt(dy), q), Surd(y2, RInt(-dx), q))
              IN  [ret |-> IF SPtEq(np1, np2) THEN 1 ELSE 2,
                   p1 |-> np1, p2 |-> np2, divByZero |-> FALSE]

InitCircles ==
  /\ fn = "getIntersectionOfCircles"
  /\ in \in [c0 : Circles, c1 : Circles, p1 : {PriorSPoint}, p2 : {PriorSPoint}]
  /\ out = NoOut
  /\ pc = "call"

CallCircles ==
  /\ pc = "call"
  /\ fn = "getIntersectionOfCircles"
  /\ out' = getIntersectionOfCircles(in.c0, in.c1, in.p1, in.p2)
  /\ pc' = "done"
  /\ UNCHANGED <<fn, in>>

SpecCircles == InitCircles /\ [][CallCircles]_vars

\* the squared distance of the point p from the integer point c
SqDist(p, c) ==
  LET q == IF p.x.c[1] = 0 THEN p.y.q ELSE p.x.q
      dx == RSub(p.x.r, RInt(c.x))
      dy == RSub(p.y.r, RInt(c.y))
  IN  Surd(RAdd(RAdd(RMul(dx, dx), RMul(dy, dy)),
                RMul(q, RAdd(RMul(p.x.c, p.x.c), RMul(p.y.c, p.y.c)))),
           RMul(RInt(2), RAdd(RMul(dx, p.x.c), RMul(dy, p.y.c))),
           q)

\* p lies on the circle: |p - center|^2 = radius^2
OnCircle(p, circle) ==
  ~p.x.nan /\ ~p.y.nan /\ SEq(SqDist(p, circle.center), SRat(RInt(circle.radius * circle.radius)))

CenterDist2(c0, c1) ==
  (c1.center.x - c0.center.x) * (c1.center.x - c0.center.x)
    + (c1.center.y - c0.center.y) * (c1.center.y - c0.center.y)

\* C4: for circles with radii >= 0 and center distance d > 0 the count is 0
\* exactly when d > r0 + r1 or d < |r0 - r1| (p1, p2 unchanged), 1 exactly when
\* the circles are tangent (then p1 = p2), 2 otherwise; with a count of 1 or 2
\* both points lie on both circles.
C4_CirclesContract ==
  (fn = "getIntersectionOfCircles" /\ pc = "done" /\ CenterDist2(in.c0, in.c1) > 0) =>
    LET dd == CenterDist2(in.c0, in.c1)
        sum == in.c0.radius + in.c1.radius
        diff == in.c0.radius - in.c1.radius
    IN  /\ out.ret \in {0, 1, 2}
        /\ out.ret = 0 <=> (dd > sum * sum \/ dd < diff * diff)
        /\ out.ret = 0 => (out.p1 = in.p1 /\ out.p2 = in.p2)
        /\ out.ret = 1 <=> (dd = sum * sum \/ dd = diff * diff)
        /\ out.ret = 1 => SPtEq(out.p1, out.p2)
        /\ out.ret # 0 =>
             /\ OnCircle(out.p1, in.c0) /\ OnCircle(out.p1, in.c1)
             /\ OnCircle(out.p2, in.c0) /\ OnCircle(out.p2, in.c1)

\* C4 witness: two proper intersection points off the grid
C4_Witness ==
  /\ fn = "getIntersectionOfCircles" /\ pc = "done"
  /\ out.ret = 2
  /\ ~out.p1.x.nan
  /\ out.p1.x.q[2] # 1
  /\ in.c0.radius # in.c1.radius

\* C4 witness of the tangent case
C4_TangentReached ==
  /\ fn = "getIntersectionOfCircles" /\ pc = "done"
  /\ out.ret = 1
  /\ in.c0.radius > 0 /\ in.c1.radius > 0

(***************************************************************************)
(* Geometry::getIntersectionOfLineAndCircle                                *)
(* (the line's direction as given by the caller, len2 = 1)                 *)
(***************************************************************************)
\* mutant: the two roots -p_2 + radix and -p_2 - radix are exchanged
getIntersectionOfLineAndCircleSwapped(line, circle, firstIntersection, secondIntersection) ==
  LET b == line.base
      v == line.direction
      c == circle.center
      divisor == v.x * v.x + v.y * v.y
  IN  IF divisor = 0
      \* p = 0/0 is NaN, so is radicand: (radicand < 0) and (radicand == 0) are false
      THEN [ret |-> 2, firstIntersection |-> NaNPoint, secondIntersection |-> NaNPoint,
            divByZero |-> TRUE]
      ELSE
        LET p == Rat(2 * ((b.x * v.x + b.y * v.y) - (c.x * v.x + c.y * v.y)), divisor)
            q == Rat((b.x - c.x) * (b.x - c.x) + (b.y - c.y) * (b.y - c.y)
                       - circle.radius * circle.radius, divisor)
            p_2 == RDiv(p, RInt(2))
            radicand == RSub(RMul(p_2, p_2), q)
            \* base + direction * (-p_2 + sign * sqrt(radicand))
            along(sign) ==
              SPoint(Surd(RSub(RInt(b.x), RMul(RInt(v.x), p_2)), RInt(sign * v.x), radicand),
                     Surd(RSub(RInt(b.y), RMul(RInt(v.y), p_2)), RInt(sign * v.y), radicand))
        IN  IF RLt(radicand, RInt(0))
            THEN [ret |-> 0, firstIntersection |-> firstIntersection,
                  secondIntersection |-> secondIntersection, divByZero |-> FALSE]
            ELSE [ret |-> IF REq(radicand, RInt(0)) THEN 1 ELSE 2,
                  firstIntersection |-> along(-1),
                  secondIntersection |-> along(1),
                  divByZero |-> FALSE]

getIntersectionOfLineAndCircle(line, circle, firstIntersection, secondIntersection) ==
  LET b == line.base
      v == line.direction
      c == circle.center
      divisor == v.x * v.x + v.y * v.y
  IN  IF divisor = 0
      \* p = 0/0 is NaN, so is radicand: (radicand < 0) and (radicand == 0) are false
      THEN [ret |-> 2, firstIntersection |-> NaNPoint, secondIntersection |-> NaNPoint,
            divByZero |-> TRUE]
      ELSE
        LET p == Rat(2 * ((b.x * v.x + b.y * v.y) - (c.x * v.x + c.y * v.y)), divisor)
            q == Rat((b.x - c.x) * (b.x - c.x) + (b.y - c.y) * (b.y - c.y)
                       - circle.radius * circle.radius, divisor)
            p_2 == RDiv(p, RInt(2))
            radicand == RSub(RMul(p_2, p_2), q)
            \* base + direction * (-p_2 + sign * sqrt(radicand))
            along(sign) ==
              SPoint(Surd(RSub(RInt(b.x), RMul(RInt(v.x), p_2)), RInt(sign * v.x), radicand),
                     Surd(RSub(RInt(b.y), RMul(RInt(v.y), p_2)), RInt(sign * v.y), radicand))
        IN  IF RLt(radicand, RInt(0))
            THEN [ret |-> 0, firstIntersection |-> firstIntersection,
                  secondIntersection |-> secondIntersection, divByZero |-> FALSE]
            ELSE [ret |-> IF REq(radicand, RInt(0)) THEN 1 ELSE 2,
                  firstIntersection |-> along(1),
                  secondIntersection |-> along(-1),
                  divByZero |-> FALSE]

InitLineCircle ==
  /\ fn = "getIntersectionOfLineAndCircle"
  /\ in \in [line : Lines, circle : Circles,
             firstIntersection : {PriorSPoint}, secondIntersection : {PriorSPoint}]
  /\ out = NoOut
  /\ pc = "call"

CallLineCircle ==
  /\ pc = "call"
  /\ fn = "getIntersectionOfLineAndCircle"
  /\ out' = getIntersectionOfLineAndCircle(in.line, in.circle,
                                           in.firstIntersection, in.secondIntersection)
  /\ pc' = "done"
  /\ UNCHANGED <<fn, in>>

SpecLineCircle == InitLineCircle /\ [][CallLineCircle]_vars

\* (p - b) . v and (p - b) x v for a point p with square roots and integer b, v
SDotFrom(p, b, v) ==
  Surd(RAdd(RMul(RSub(p.x.r, RInt(b.x)), RInt(v.x)), RMul(RSub(p.y.r, RInt(b.y)), RInt(v.y))),
       RAdd(RMul(p.x.c, RInt(v.x)), RMul(p.y.c, RInt(v.y))),
       IF p.x.c[1] = 0 THEN p.y.q ELSE p.x.q)

SCrossFrom(p, b, v) ==
  Surd(RSub(RMul(RSub(p.x.r, RInt(b.x)), RInt(v.y)), RMul(RSub(p.y.r, RInt(b.y)), RInt(v.x))),
       RSub(RMul(p.x.c, RInt(v.y)), RMul(p.y.c, RInt(v.x))),
       IF p.x.c[1] = 0 THEN p.y.q ELSE p.x.q)

SOnLine(p, line) ==
  ~p.x.nan /\ ~p.y.nan /\ SEq(SCrossFrom(p, line.base, line.direction), SRat(RInt(0)))

\* C5: for a line with a non-zero direction the count is 0, 1 or 2 as the
\* distance of the center from the infinite line is greater than, equal to or
\* smaller than the radius; with a count of 1 or 2 both points lie on the line
\* and on the circle, and firstIntersection has the larger line parameter.
C5_LineCircleContract ==
  (/\ fn = "getIntersectionOfLineAndCircle" /\ pc = "done"
   /\ (in.line.direction.x # 0 \/ in.line.direction.y # 0)) =>
    LET v == in.line.direction
        n == Dot(v, v)
        cr == Cross(Minus(in.circle.center, in.line.base), v)
        rr == in.circle.radius * in.circle.radius
        \* squared distance center-line is cr * cr / n
    IN  /\ out.ret = 0 <=> cr * cr > rr * n
        /\ out.ret = 1 <=> cr * cr = rr * n
        /\ out.ret = 2 <=> cr * cr < rr * n
        /\ out.ret = 0 => /\ out.firstIntersection = in.firstIntersection
                          /\ out.secondIntersection = in.secondIntersection
        /\ out.ret # 0 =>
             /\ SOnLine(out.firstIntersection, in.line)
             /\ SOnLine(out.secondIntersection, in.line)
             /\ OnCircle(out.firstIntersection, in.circle)
             /\ OnCircle(out.secondIntersection, in.circle)
             /\ ~SLt(SDotFrom(out.firstIntersection, in.line.base, v),
                     SDotFrom(out.secondIntersection, in.line.base, v))
        /\ out.ret = 2 =>
             SLt(SDotFrom(out.secondIntersection, in.line.base, v),
                 SDotFrom(out.firstIntersection, in.line.base, v))
        /\ out.ret = 1 => SPtEq(out.firstIntersection, out.secondIntersection)

\* C5 witness: a secant with a direction that is not of unit length and
\* intersection points with irrational coordinates
C5_Witness ==
  /\ fn = "getIntersectionOfLineAndCircle" /\ pc = "done"
  /\ out.ret = 2
  /\ Dot(in.line.direction, in.line.direction) > 1
  /\ out.firstIntersection.x.q[2] # 1

(***************************************************************************)
(* Geometry::getOrthogonalProjectionOfPointOnLine (base, dir, point)       *)
(* With dir = (x, y) / sqrt(len2):  l = (point - base) . (x, y) / sqrt(len2)*)
(* and base + dir * l = base + (x, y) * ((point - base) . (x, y)) / len2.  *)
(***************************************************************************)
getOrthogonalProjectionOfPointOnLine(base, dir, point) ==
  LET l == (point.x - base.x) * dir.x + (point.y - base.y) * dir.y
  IN  RPoint(RAdd(RInt(base.x), Rat(dir.x * l, dir.len2)),
             RAdd(RInt(base.y), Rat(dir.y * l, dir.len2)))

(***************************************************************************)
(* Geometry::getOrthogonalProjectionOfPointOnEdge (base, dir, point)       *)
(***************************************************************************)
EdgeDirs == [x : (-MaxDir)..MaxDir, y : (-MaxDir)..MaxDir]

getOrthogonalProjectionOfPointOnEdge(base, dir, point) ==
  LET projection == getOrthogonalProjectionOfPointOnLine(base, normalized(dir), point)
      dd == dir.x * dir.x + dir.y * dir.y
  IN  IF dd = 0
      \* d = 0/0 is NaN: (d < 0) and (d > 1.0f) are both false
      THEN [ret |-> projection, divByZero |-> TRUE]
      ELSE
        LET d == RDiv(RAdd(RMul(RSub(projection.x, RInt(base.x)), RInt(dir.x)),
                           RMul(RSub(projection.y, RInt(base.y)), RInt(dir.y))),
                      RInt(dd))
        IN  [ret |-> IF RLt(d, RInt(0)) THEN RPt(base)
                     ELSE IF RLt(RInt(1), d) THEN RPt(Vec(base.x + dir.x, base.y + dir.y))
                     ELSE projection,
             divByZero |-> FALSE]

InitProjEdge ==
  /\ fn = "getOrthogonalProjectionOfPointOnEdge"
  /\ in \in [base : Bases, dir : EdgeDirs, point : Points]
  /\ out = NoOut
  /\ pc = "call"

CallProjEdge ==
  /\ pc = "call"
  /\ fn = "getOrthogonalProjectionOfPointOnEdge"
  /\ out' = getOrthogonalProjectionOfPointOnEdge(in.base, in.dir, in.point)
  /\ pc' = "done"
  /\ UNCHANGED <<fn, in>>

(***************************************************************************)
(* The three functions that divide without a check of the divisor.         *)
(***************************************************************************)
InitDivisions == InitCircles \/ InitLineCircle \/ InitProjEdge

NextDivisions == CallCircles \/ CallLineCircle \/ CallProjEdge

SpecDivisions == InitDivisions /\ [][NextDivisions]_vars

\* C3: every division is preceded by a check that guarantees a non-zero
\* divisor: getIntersectionOfCircles never divides by d = 0,
\* getIntersectionOfLineAndCircle never divides by the squared norm of a zero
\* direction, getOrthogonalProjectionOfPointOnEdge never divides by
\* dir.dot(dir) = 0.
C3_NoDivisionByZero == (pc = "done") => ~out.divByZero

\* C3 for each of the three functions
C3_CirclesDivideByZero ==
  fn = "getIntersectionOfCircles" /\ pc = "done" /\ out.divByZero

C3_LineCircleDividesByZero ==
  fn = "getIntersectionOfLineAndCircle" /\ pc = "done" /\ out.divByZero

C3_ProjEdgeDividesByZero ==
  fn = "getOrthogonalProjectionOfPointOnEdge" /\ pc = "done" /\ out.divByZero

(***************************************************************************)
(* Geometry::getIntersectionOfRaysFactor                                   *)
(* (directions as given by the caller, len2 = 1)                           *)
(***************************************************************************)
PriorFactor == <<-7, 2>>

\* mutant: the factor along ray2 is not bounded by 1
getIntersectionOfRaysFactorUnbounded(ray1, ray2, factor) ==
  LET b1 == ray1.base
      d1 == ray1.direction
      b2 == ray2.base
      d2 == ray2.direction
      divisor == d2.x * d1.y - d1.x * d2.y
  IN  IF divisor = 0 THEN [ret |-> FALSE, factor |-> factor]
      ELSE
        LET k == Rat(d2.y * b1.x - d2.y * b2.x - d2.x * b1.y + d2.x * b2.y, divisor)
            l == Rat(d1.y * b1.x - d1.y * b2.x - d1.x * b1.y + d1.x * b2.y, divisor)
        IN  IF RLe(RInt(0), k) /\ RLe(RInt(0), l) /\ RLe(k, RInt(1)) /\ TRUE
            THEN [ret |-> TRUE, factor |-> k]
            ELSE [ret |-> FALSE, factor |-> factor]

getIntersectionOfRaysFactor(ray1, ray2, factor) ==
  LET b1 == ray1.base
      d1 == ray1.direction
      b2 == ray2.base
      d2 == ray2.direction
      divisor == d2.x * d1.y - d1.x * d2.y
  IN  IF divisor = 0 THEN [ret |-> FALSE, factor |-> factor]
      ELSE
        LET k == Rat(d2.y * b1.x - d2.y * b2.x - d2.x * b1.y + d2.x * b2.y, divisor)
            l == Rat(d1.y * b1.x - d1.y * b2.x - d1.x * b1.y + d1.x * b2.y, divisor)
        IN  IF RLe(RInt(0), k) /\ RLe(RInt(0), l) /\ RLe(k, RInt(1)) /\ RLe(l, RInt(1))
            THEN [ret |-> TRUE, factor |-> k]
            ELSE [ret |-> FALSE, factor |-> factor]

InitRays ==
  /\ fn = "getIntersectionOfRaysFactor"
  /\ in \in [ray1 : Lines, ray2 : Lines, factor : {PriorFactor}]
  /\ out = NoOut
  /\ pc = "call"

CallRays ==
  /\ pc = "call"
  /\ fn = "getIntersectionOfRaysFactor"
  /\ out' = getIntersectionOfRaysFactor(in.ray1, in.ray2, in.factor)
  /\ pc' = "done"
  /\ UNCHANGED <<fn, in>>

SpecRays == InitRays /\ [][CallRays]_vars

\* the far end base + direction of a segment
EndOf(line) == Vec(line.base.x + line.direction.x, line.base.y + line.direction.y)

\* c and d are not strictly on the same side of the line through a and b
Straddles(a, b, c, d) ==
  Sgn(Cross(Minus(b, a), Minus(c, a))) * Sgn(Cross(Minus(b, a), Minus(d, a))) <= 0

\* two non-parallel closed segments share a point
SegmentsMeet(s, t) ==
  /\ Straddles(s.base, EndOf(s), t.base, EndOf(t))
  /\ Straddles(t.base, EndOf(t), s.base, EndOf(s))

\* lo <= v <= hi or hi <= v <= lo, for a rational v and integers lo, hi
RBetween(v, lo, hi) ==
  \/ RLe(RInt(lo), v) /\ RLe(v, RInt(hi))
  \/ RLe(RInt(hi), v) /\ RLe(v, RInt(lo))

\* the rational point p lies on the closed segment [base, base + direction]
ROnSegment(p, line) ==
  /\ OnLine(p, line.base, line.direction)
  /\ RBetween(p.x, line.base.x, EndOf(line).x)
  /\ RBetween(p.y, line.base.y, EndOf(line).y)

\* C6: getIntersectionOfRaysFactor returns true iff the directions are not
\* parallel and the closed segments [base, base + direction] share a point;
\* then factor is in [0,1] and ray1.base + factor * ray1.direction lies on
\* segment 2; on failure factor is unchanged.
C6_RaysContract ==
  (fn = "getIntersectionOfRaysFactor" /\ pc = "done") =>
    LET r1 == in.ray1
        r2 == in.ray2
        hit == RPoint(RAdd(RInt(r1.base.x), RMul(out.factor, RInt(r1.direction.x))),
                      RAdd(RInt(r1.base.y), RMul(out.factor, RInt(r1.direction.y))))
    IN  /\ out.ret = TRUE <=> (Cross(r1.direction, r2.direction) # 0 /\ SegmentsMeet(r1, r2))
        /\ out.ret = TRUE =>
             /\ RLe(RInt(0), out.factor) /\ RLe(out.factor, RInt(1))
             /\ ROnSegment(hit, r2)
        /\ out.ret = FALSE => out.factor = in.factor

\* C6 witness: the segments cross strictly inside segment 1
C6_Witness ==
  /\ fn = "getIntersectionOfRaysFactor" /\ pc = "done"
  /\ out.ret = TRUE
  /\ RLt(RInt(0), out.factor) /\ RLt(out.factor, RInt(1))

\* C6: non-parallel lines that cross outside the segments are rejected
C6_MissReached ==
  /\ fn = "getIntersectionOfRaysFactor" /\ pc = "done"
  /\ out.ret = FALSE
  /\ Cross(in.ray1.direction, in.ray2.direction) # 0

(***************************************************************************)
(* Polygons: sequences of at least MinVerts grid points, the closing edge  *)
(* from the last vertex to the first implied.                              *)
(***************************************************************************)
MinVerts == 3

\* the vertex after index i, cyclically:  polygon[(i + 1) % polygon.size()]
NextIdx(V, i) == (i % Len(V)) + 1

\* two closed segments ab and cd share a point
SegsTouch(a, b, c, d) ==
  \/ /\ Sgn(Cross(Minus(b, a), Minus(c, a))) * Sgn(Cross(Minus(b, a), Minus(d, a))) < 0
     /\ Sgn(Cross(Minus(d, c), Minus(a, c))) * Sgn(Cross(Minus(d, c), Minus(b, c))) < 0
  \/ OnSegment(a, b, c) \/ OnSegment(a, b, d)
  \/ OnSegment(c, d, a) \/ OnSegment(c, d, b)

\* the open chain c may be extended by the vertex v without touching itself
ExtendOK(c, v) ==
  LET k == Len(c)
  IN  /\ \A i \in 1..k : c[i] # v
      /\ k >= 2 => ~OnSegment(c[k - 1], c[k], v) /\ ~OnSegment(c[k], v, c[k - 1])
      /\ \A j \in 1..(k - 2) : ~SegsTouch(c[j], c[j + 1], c[k], v)

\* the closing edge of the chain c touches no other edge
CloseOK(c) ==
  LET n == Len(c)
  IN  /\ ~OnSegment(c[n - 1], c[n], c[1]) /\ ~OnSegment(c[n], c[1], c[n - 1])
      /\ ~OnSegment(c[1], c[2], c[n]) /\ ~OnSegment(c[n], c[1], c[2])
      /\ \A j \in 2..(n - 2) : ~SegsTouch(c[j], c[j + 1], c[n], c[1])

\* p comes before q in the order by x, then y
Before(p, q) == p.x < q.x \/ (p.x = q.x /\ p.y < q.y)

\* the simple open chains of k vertices in pts; with first, only those whose
\* first vertex comes before all the others
RECURSIVE Chains(_, _, _)
Chains(pts, k, first) ==
  IF k = 1 THEN {<<p>> : p \in pts}
  ELSE UNION {{Append(c, v) :
                 v \in {w \in pts : (first => Before(c[1], w)) /\ ExtendOK(c, w)}} :
              c \in Chains(pts, k - 1, first)}

\* the simple (not self-touching) polygons with MinVerts..max vertices in pts
SimplePolygons(pts, max, first) ==
  UNION {{c \in Chains(pts, k, first) : CloseOK(c)} : k \in MinVerts..max}

(***************************************************************************)
(* Geometry::isPointLeftOfLine                                             *)
(***************************************************************************)
\* mutant: a point on the line counts as left
isPointLeftOfLineOrOn(start, end, point) ==
  ((end.x - start.x) * (point.y - start.y) - (end.y - start.y) * (point.x - start.x)) >= 0

isPointLeftOfLine(start, end, point) ==
  ((end.x - start.x) * (point.y - start.y) - (end.y - start.y) * (point.x - start.x)) > 0

(***************************************************************************)
(* Geometry::getIntersectionOfLineAndConvexPolygon                         *)
(* intersectedLine is [given, line]: given = FALSE is the null pointer.    *)
(***************************************************************************)
MaxScanCoord == 1

MaxScanVerts == 3

ScanPoints == [x : 0..MaxScanCoord, y : 0..MaxScanCoord]

ScanPolygons == SimplePolygons(ScanPoints, MaxScanVerts, FALSE)

PriorLine == Line(Vec(-7, -9), Dir(Vec(-7, -9)))

\* the loop body for the edge starting at vertex i (1-based) and the rest of
\* the loop
RECURSIVE scanEdges(_, _, _, _, _, _)
scanEdges(polygon, direction, intersection, isCCW, intersectedLine, i) ==
  IF i > Len(polygon)
  THEN [ret |-> FALSE, intersection |-> intersection, intersectedLine |-> intersectedLine]
  ELSE
    LET p1 == polygon[i]
        p2 == polygon[NextIdx(polygon, i)]
        dir == Minus(p2, p1)
        polygonLine == Line(p1, normalized(dir))
        end == Vec(direction.base.x + direction.direction.x,
                   direction.base.y + direction.direction.y)
        isLeftP1 == isPointLeftOfLine(direction.base, end, p1)
        isLeftP2 == isPointLeftOfLine(direction.base, end, p2)
        hasIntersection == isLeftP1 # isLeftP2 /\ (IF isCCW THEN ~isLeftP1 ELSE isLeftP1)
        found == getIntersectionOfLines(direction, polygonLine, PriorPoint)
    IN  IF hasIntersection /\ found.ret
        THEN [ret |-> TRUE,
              intersection |-> found.intersection,
              intersectedLine |-> IF intersectedLine.given
                                  THEN [given |-> TRUE, line |-> polygonLine]
                                  ELSE intersectedLine]
        ELSE scanEdges(polygon, direction, intersection, isCCW, intersectedLine, i + 1)

getIntersectionOfLineAndConvexPolygon(polygon, direction, intersection, isCCW, intersectedLine) ==
  scanEdges(polygon, direction, intersection, isCCW, intersectedLine, 1)

InitScan ==
  /\ fn = "getIntersectionOfLineAndConvexPolygon"
  /\ in \in [polygon : ScanPolygons, intersection : {PriorPoint}]
  /\ out = NoOut
  /\ pc = "call"

\* the scan line runs from a grid point a to a grid point b
CallScan ==
  /\ pc = "call"
  /\ fn = "getIntersectionOfLineAndConvexPolygon"
  /\ \E a \in ScanPoints, b \in ScanPoints, isCCW \in BOOLEAN, given \in BOOLEAN :
       LET direction == Line(a, Dir(Minus(b, a)))
           intersectedLine == [given |-> given, line |-> PriorLine]
       IN  /\ in' = [polygon |-> in.polygon, intersection |-> in.intersection,
                     direction |-> direction, isCCW |-> isCCW,
                     intersectedLine |-> intersectedLine]
           /\ out' = getIntersectionOfLineAndConvexPolygon(
                       in.polygon, direction, in.intersection, isCCW, intersectedLine)
  /\ pc' = "done"
  /\ UNCHANGED fn

SpecScan == InitScan /\ [][CallScan]_vars

\* p is strictly left of the scan line
LeftOfScan(line, p) == Cross(line.direction, Minus(p, line.base)) > 0

\* edge i has its endpoints on different sides of the scan line, its start
\* not-left for isCCW and left otherwise
Qualifies(V, line, isCCW, i) ==
  LET la == LeftOfScan(line, V[i])
      lb == LeftOfScan(line, V[NextIdx(V, i)])
  IN  la # lb /\ (IF isCCW THEN ~la ELSE la)

MaxConvexVerts == 4

\* every other vertex is strictly on side s (1: left, -1: right) of the edge
\* from a to b
AllOnSide(V, a, b, s) ==
  \A j \in 1..Len(V) :
    (V[j] # a /\ V[j] # b) => Sgn(Cross(Minus(b, a), Minus(V[j], a))) = s

\* the chains that are the first k vertices of a strictly convex polygon
RECURSIVE ConvexChains(_, _, _)
ConvexChains(pts, s, k) ==
  IF k = 2 THEN {e \in pts \X pts : e[1] # e[2]}
  ELSE UNION {{Append(c, v) :
                 v \in {w \in pts : /\ \A i \in 1..Len(c) : c[i] # w
                                    /\ \A i \in 1..(Len(c) - 1) :
                                         Sgn(Cross(Minus(c[i + 1], c[i]), Minus(w, c[i]))) = s
                                    /\ AllOnSide(c, c[Len(c)], w, s)}} :
              c \in ConvexChains(pts, s, k - 1)}

\* the strictly convex polygons with MinVerts..max vertices in pts, counter-
\* clockwise (s = 1) or clockwise (s = -1)
ConvexPolygonsOf(pts, s, max) ==
  UNION {{c \in ConvexChains(pts, s, k) : AllOnSide(c, c[k], c[1], s)} : k \in MinVerts..max}

ConvexPolygons ==
  ConvexPolygonsOf(EvenPoints, 1, MaxConvexVerts)
    \cup ConvexPolygonsOf(EvenPoints, -1, MaxConvexVerts)

\* mutant: the loop leaves out the closing edge
RECURSIVE convexLoopNoClosingEdge(_, _, _, _, _)
convexLoopNoClosingEdge(polygon, numberOfPoints, point, orientation, i) ==
  IF i >= numberOfPoints - 1 THEN TRUE
  ELSE
    LET currentOrientation ==
          ccw(polygon[i + 1], polygon[((i + 1) % numberOfPoints) + 1], point)
    IN  IF currentOrientation = 0 THEN TRUE
        ELSE IF currentOrientation # orientation THEN FALSE
        ELSE convexLoopNoClosingEdge(polygon, numberOfPoints, point, orientation, i + 1)

isPointInsideConvexPolygonNoClosingEdge(polygon, numberOfPoints, point) ==
  LET orientation == ccw(polygon[1], polygon[2], point)
  IN  IF orientation = 0 THEN TRUE
      ELSE convexLoopNoClosingEdge(polygon, numberOfPoints, point, orientation, 1)

\* the for loop from index i on
RECURSIVE convexLoop(_, _, _, _, _)
convexLoop(polygon, numberOfPoints, point, orientation, i) ==
  IF i >= numberOfPoints THEN TRUE
  ELSE
    LET currentOrientation ==
          ccw(polygon[i + 1], polygon[((i + 1) % numberOfPoints) + 1], point)
    IN  IF currentOrientation = 0 THEN TRUE
        ELSE IF currentOrientation # orientation THEN FALSE
        ELSE convexLoop(polygon, numberOfPoints, point, orientation, i + 1)

isPointInsideConvexPolygon(polygon, numberOfPoints, point) ==
  LET orientation == ccw(polygon[1], polygon[2], point)
  IN  IF orientation = 0 THEN TRUE
      ELSE convexLoop(polygon, numberOfPoints, point, orientation, 1)

InitConvex ==
  /\ fn = "isPointInsideConvexPolygon"
  /\ in \in [polygon : ConvexPolygons]
  /\ out = NoOut
  /\ pc = "call"

CallConvex ==
  /\ pc = "call"
  /\ fn = "isPointInsideConvexPolygon"
  /\ \E point \in QueryPoints :
       /\ in' = [polygon |-> in.polygon, point |-> point]
       /\ out' = [ret |-> isPointInsideConvexPolygon(in.polygon, Len(in.polygon), point)]
  /\ pc' = "done"
  /\ UNCHANGED fn

SpecConvex == InitConvex /\ [][CallConvex]_vars

\* twice the signed area of the polygon (positive: counter-clockwise)
RECURSIVE Area2From(_, _)
Area2From(V, i) ==
  IF i > Len(V) THEN 0
  ELSE (V[i].x * V[NextIdx(V, i)].y - V[NextIdx(V, i)].x * V[i].y) + Area2From(V, i + 1)

\* p lies in the closed convex polygon V: on no edge's outer side
InClosedConvex(V, p) ==
  \A i \in 1..Len(V) :
    Sgn(Area2From(V, 1)) * Cross(Minus(V[NextIdx(V, i)], V[i]), Minus(p, V[i])) >= 0

\* C8: for a strictly convex polygon in clockwise or counter-clockwise order
\* isPointInsideConvexPolygon is true iff the point lies in the closed polygon
\* (interior, edge or vertex); a point collinear with an edge but outside the
\* edge's segment is outside.
C8_ConvexContract ==
  (fn = "isPointInsideConvexPolygon" /\ pc = "done") =>
    (out.ret = TRUE <=> InClosedConvex(in.polygon, in.point))

\* C8 witness: a clockwise polygon and a point on the line of its first edge,
\* behind the edge's start, reported as outside
C8_Witness ==
  /\ fn = "isPointInsideConvexPolygon" /\ pc = "done"
  /\ Area2From(in.polygon, 1) < 0
  /\ Cross(Minus(in.polygon[2], in.polygon[1]), Minus(in.point, in.polygon[1])) = 0
  /\ Dot(Minus(in.polygon[2], in.polygon[1]), Minus(in.point, in.polygon[1])) < 0
  /\ out.ret = FALSE

\* C8: a point inside a counter-clockwise quadrilateral and a point on a
\* later edge are both reached
C8_InteriorReached ==
  /\ fn = "isPointInsideConvexPolygon" /\ pc = "done"
  /\ Len(in.polygon) = 4
  /\ Area2From(in.polygon, 1) > 0
  /\ \A i \in 1..4 :
       Cross(Minus(in.polygon[NextIdx(in.polygon, i)], in.polygon[i]),
             Minus(in.point, in.polygon[i])) > 0
  /\ out.ret = TRUE

(***************************************************************************)
(* Geometry::isPointInsidePolygon (Vector2f and Vector3f overloads)        *)
(* V[i] of the code is V[i + 1] here; acc holds oddNodes (ret).            *)
(***************************************************************************)
MaxSimpleVerts == 3

\* mutant: both straddle tests are strict
RECURSIVE crossingLoopStrict(_, _, _, _, _)
crossingLoopStrict(point, V, i, j, acc) ==
  IF i > Len(V) THEN acc
  ELSE
    LET straddles ==
          \/ (V[i].y < point.y /\ V[j].y > point.y)
          \/ (V[j].y < point.y /\ V[i].y > point.y)
        divisor == V[j].y - V[i].y
        num == point.y - V[i].y
        dx == V[j].x - V[i].x
        \* V[i].x + num / divisor * dx < point.x; with divisor = 0 the
        \* quotient is +-inf or NaN
        crosses ==
          IF divisor = 0 THEN Sgn(num) * Sgn(dx) < 0
          ELSE RLt(RAdd(RInt(V[i].x), RMul(Rat(num, divisor), RInt(dx))), RInt(point.x))
    IN  crossingLoopStrict(point, V, i + 1, i,
               IF straddles
               THEN [ret |-> IF crosses THEN ~acc.ret ELSE acc.ret,
                     divByZero |-> acc.divByZero \/ divisor = 0]
               ELSE acc)

isPointInsidePolygonStrict(point, V) ==
  crossingLoopStrict(point, V, 1, Len(V), [ret |-> FALSE, divByZero |-> FALSE])

\* the for loop from index i on, j the index before i
RECURSIVE crossingLoop(_, _, _, _, _)
crossingLoop(point, V, i, j, acc) ==
  IF i > Len(V) THEN acc
  ELSE
    LET straddles ==
          \/ (V[i].y < point.y /\ V[j].y >= point.y)
          \/ (V[j].y < point.y /\ V[i].y >= point.y)
        divisor == V[j].y - V[i].y
        num == point.y - V[i].y
        dx == V[j].x - V[i].x
        \* V[i].x + num / divisor * dx < point.x; with divisor = 0 the
        \* quotient is +-inf or NaN
        crosses ==
          IF divisor = 0 THEN Sgn(num) * Sgn(dx) < 0
          ELSE RLt(RAdd(RInt(V[i].x), RMul(Rat(num, divisor), RInt(dx))), RInt(point.x))
    IN  crossingLoop(point, V, i + 1, i,
               IF straddles
               THEN [ret |-> IF crosses THEN ~acc.ret ELSE acc.ret,
                     divByZero |-> acc.divByZero \/ divisor = 0]
               ELSE acc)

isPointInsidePolygon(point, V) ==
  crossingLoop(point, V, 1, Len(V), [ret |-> FALSE, divByZero |-> FALSE])

\* the Vector3f overload: the same statements, z is not read
isPointInsidePolygon3(point, V) ==
  crossingLoop(point, V, 1, Len(V), [ret |-> FALSE, divByZero |-> FALSE])

\* the L-shaped hexagons of the grid: a w x h rectangle without its upper
\* right (w - n) x (h - m) corner
LShape(o, w, h, n, m) ==
  <<Vec(2 * o.x, 2 * o.y), Vec(2 * (o.x + w), 2 * o.y), Vec(2 * (o.x + w), 2 * (o.y + m)),
    Vec(2 * (o.x + n), 2 * (o.y + m)), Vec(2 * (o.x + n), 2 * (o.y + h)),
    Vec(2 * o.x, 2 * (o.y + h))>>

UprightLShapes ==
  {LShape(t[1], t[2], t[3], t[4], t[5]) :
     t \in {u \in Points \X (2..MaxCoord) \X (2..MaxCoord) \X (1..MaxCoord) \X (1..MaxCoord) :
              /\ u[1].x + u[2] <= MaxCoord
              /\ u[1].y + u[3] <= MaxCoord
              /\ u[4] < u[2]
              /\ u[5] < u[3]}}

\* V mirrored in x (mx) and in y (my) within the grid
Mirror(V, mx, my) ==
  [i \in 1..Len(V) |->
     Vec(IF mx THEN 2 * MaxCoord - V[i].x ELSE V[i].x,
         IF my THEN 2 * MaxCoord - V[i].y ELSE V[i].y)]

\* the L shapes with the notch in any of the four corners
LShapes == {Mirror(V, mx, my) : V \in UprightLShapes, mx \in BOOLEAN, my \in BOOLEAN}

\* simple polygons, one vertex order for each (the others are its rotations
\* and its reversal)
SimpleInputs ==
  SimplePolygons(EvenPoints, MaxSimpleVerts, TRUE) \cup LShapes

InitSimple ==
  /\ fn = "isPointInsidePolygon"
  /\ in \in [V : SimpleInputs]
  /\ out = NoOut
  /\ pc = "call"

\* both overloads are called, the Vector3f one with the point at height 0 and
\* vertex i at height i
CallSimple ==
  /\ pc = "call"
  /\ fn = "isPointInsidePolygon"
  /\ \E point \in QueryPoints :
       LET point3 == [x |-> point.x, y |-> point.y, z |-> 0]
           V3 == [i \in 1..Len(in.V) |-> [x |-> in.V[i].x, y |-> in.V[i].y, z |-> i]]
           r2 == isPointInsidePolygon(point, in.V)
           r3 == isPointInsidePolygon3(point3, V3)
       IN  /\ in' = [V |-> in.V, point |-> point, point3 |-> point3, V3 |-> V3]
           /\ out' = [ret |-> r2.ret, ret3 |-> r3.ret,
                      divByZero |-> r2.divByZero \/ r3.divByZero]
  /\ pc' = "done"
  /\ UNCHANGED fn

SpecSimple == InitSimple /\ [][CallSimple]_vars

\* the vertex sequence reversed, and rotated by k
Rev(V) == [i \in 1..Len(V) |-> V[Len(V) + 1 - i]]

Rot(V, k) == [i \in 1..Len(V) |-> V[((i + k - 1) % Len(V)) + 1]]

Orders(V) == {Rot(V, k) : k \in 0..(Len(V) - 1)} \cup {Rot(Rev(V), k) : k \in 0..(Len(V) - 1)}

OnBoundary(V, p) == \E i \in 1..Len(V) : OnSegment(V[i], V[NextIdx(V, i)], p)

\* the quadrant (0..3, counter-clockwise) of the non-zero vector d
Quadrant(d) ==
  IF d.x > 0 /\ d.y >= 0 THEN 0
  ELSE IF d.x <= 0 /\ d.y > 0 THEN 1
  ELSE IF d.x < 0 /\ d.y <= 0 THEN 2
  ELSE 3

\* the quarter turns around p made along the edge from a to b (p not on it)
QuarterTurns(p, a, b) ==
  LET t == (Quadrant(Minus(b, p)) - Quadrant(Minus(a, p)) + 4) % 4
  IN  IF t = 3 THEN -1
      ELSE IF t = 2 THEN 2 * Sgn(Cross(Minus(a, p), Minus(b, p)))
      ELSE t

RECURSIVE TurnsFrom(_, _, _)
TurnsFrom(V, p, i) ==
  IF i > Len(V) THEN 0
  ELSE QuarterTurns(p, V[i], V[NextIdx(V, i)]) + TurnsFrom(V, p, i + 1)

\* p, not on the boundary, is in the interior of the simple polygon V: the
\* boundary winds around p
Interior(V, p) == TurnsFrom(V, p, 1) # 0

\* C9: for a simple polygon and a point not on its boundary
\* isPointInsidePolygon is true iff the point is in the interior, for every
\* rotation and for the reversal of the vertex sequence; no division by zero
\* occurs, horizontal edges included.
C9_SimpleContract ==
  (fn = "isPointInsidePolygon" /\ pc = "done") =>
    /\ ~out.divByZero
    /\ ~OnBoundary(in.V, in.point) =>
         /\ out.ret = Interior(in.V, in.point)
         /\ out.ret3 = Interior(in.V, in.point)
         /\ \A W \in Orders(in.V) :
              isPointInsidePolygon(in.point, W) = [ret |-> out.ret, divByZero |-> FALSE]

\* C9 witness: the point in the notch of an L-shaped polygon is outside
C9_Witness ==
  /\ fn = "isPointInsidePolygon" /\ pc = "done"
  /\ Len(in.V) = 6
  /\ in.V \in UprightLShapes
  /\ in.V[4].x < in.point.x /\ in.point.x < in.V[2].x
  /\ in.V[4].y < in.point.y /\ in.point.y < in.V[6].y
  /\ out.ret = FALSE /\ out.ret3 = FALSE

\* C9: a point inside a polygon that is not convex and has a horizontal edge,
\* at the height of one of its vertices
C9_InsideReached ==
  /\ fn = "isPointInsidePolygon" /\ pc = "done"
  /\ ~OnBoundary(in.V, in.point)
  /\ \E i \in 1..Len(in.V) : in.V[i].y = in.point.y
  /\ out.ret = TRUE
  /\ \E i \in 1..Len(in.V) : in.V[i].y = in.V[NextIdx(in.V, i)].y
  /\ \E i \in 1..Len(in.V) :
       Sgn(Area2From(in.V, 1))
         * Cross(Minus(in.V[NextIdx(in.V, i)], in.V[i]),
                 Minus(in.V[NextIdx(in.V, NextIdx(in.V, i))], in.V[i])) < 0

(***************************************************************************)
(* Geometry::circleIntersectsAxisAlignedRectangle                          *)
(***************************************************************************)
\* mutant: only the bounding box test, without the test of the corners
circleIntersectsAxisAlignedRectangleBoxOnly(cp, r, p1, p2) ==
  LET xMin == IF p1.x < p2.x THEN p1.x ELSE p2.x
      xMax == IF p1.x < p2.x THEN p2.x ELSE p1.x
      yMin == IF p1.y < p2.y THEN p1.y ELSE p2.y
      yMax == IF p1.y < p2.y THEN p2.y ELSE p1.y
      rSquare == r * r
      far(cx, cy) == (cp.x - cx) * (cp.x - cx) + (cp.y - cy) * (cp.y - cy) > rSquare
  IN  IF cp.x < xMin - r \/ cp.x > xMax + r \/ cp.y < yMin - r \/ cp.y > yMax + r
      THEN FALSE
      ELSE IF FALSE
      THEN FALSE
      ELSE TRUE

circleIntersectsAxisAlignedRectangle(cp, r, p1, p2) ==
  LET xMin == IF p1.x < p2.x THEN p1.x ELSE p2.x
      xMax == IF p1.x < p2.x THEN p2.x ELSE p1.x
      yMin == IF p1.y < p2.y THEN p1.y ELSE p2.y
      yMax == IF p1.y < p2.y THEN p2.y ELSE p1.y
      rSquare == r * r
      far(cx, cy) == (cp.x - cx) * (cp.x - cx) + (cp.y - cy) * (cp.y - cy) > rSquare
  IN  IF cp.x < xMin - r \/ cp.x > xMax + r \/ cp.y < yMin - r \/ cp.y > yMax + r
      THEN FALSE
      ELSE IF \/ (cp.x < xMin /\ cp.y < yMin /\ far(xMin, yMin))
              \/ (cp.x < xMin /\ cp.y > yMax /\ far(xMin, yMax))
              \/ (cp.x > xMax /\ cp.y < yMin /\ far(xMax, yMin))
              \/ (cp.x > xMax /\ cp.y > yMax /\ far(xMax, yMax))
      THEN FALSE
      ELSE TRUE

InitCircleRect ==
  /\ fn = "circleIntersectsAxisAlignedRectangle"
  /\ in \in [cp : QueryPoints, r : 0..MaxRadius, p1 : Points, p2 : Points]
  /\ out = NoOut
  /\ pc = "call"

CallCircleRect ==
  /\ pc = "call"
  /\ fn = "circleIntersectsAxisAlignedRectangle"
  /\ out' = [ret |-> circleIntersectsAxisAlignedRectangle(in.cp, in.r, in.p1, in.p2)]
  /\ pc' = "done"
  /\ UNCHANGED <<fn, in>>

SpecCircleRect == InitCircleRect /\ [][CallCircleRect]_vars

\* v clamped to the interval between a and b (in either order)
Clamp(v, a, b) ==
  LET lo == IF a <= b THEN a ELSE b
      hi == IF a <= b THEN b ELSE a
  IN  IF v < lo THEN lo ELSE IF v > hi THEN hi ELSE v

\* the squared distance from cp to the nearest point of the rectangle
RectDist2(cp, p1, p2) ==
  LET nx == Clamp(cp.x, p1.x, p2.x)
      ny == Clamp(cp.y, p1.y, p2.y)
  IN  (cp.x - nx) * (cp.x - nx) + (cp.y - ny) * (cp.y - ny)

\* C10: for r >= 0 and corners in any order the result is true iff the closed
\* disc shares a point with the closed rectangle, i.e. the squared distance
\* from cp to the nearest rectangle point is <= r*r; swapping p1 and p2 does
\* not change the result.
C10_CircleRectContract ==
  (fn = "circleIntersectsAxisAlignedRectangle" /\ pc = "done") =>
    /\ out.ret = (RectDist2(in.cp, in.p1, in.p2) <= in.r * in.r)
    /\ out.ret = circleIntersectsAxisAlignedRectangle(in.cp, in.r, in.p2, in.p1)

\* C10 witness: the center is within r of two edge lines but farther than r
\* from the corner between them
C10_Witness ==
  /\ fn = "circleIntersectsAxisAlignedRectangle" /\ pc = "done"
  /\ in.p1.x > in.p2.x /\ in.p1.y < in.p2.y
  /\ in.cp.x > in.p1.x /\ in.cp.x <= in.p1.x + in.r
  /\ in.cp.y > in.p2.y /\ in.cp.y <= in.p2.y + in.r
  /\ out.ret = FALSE

\* C10: a disc around a center diagonally off a corner that reaches the corner
C10_CornerInsideReached ==
  /\ fn = "circleIntersectsAxisAlignedRectangle" /\ pc = "done"
  /\ in.cp.x < in.p1.x /\ in.cp.x < in.p2.x
  /\ in.cp.y < in.p1.y /\ in.cp.y < in.p2.y
  /\ out.ret = TRUE

(***************************************************************************)
(* Geometry::clipPointInsideRectangle (Vector2i& and Vector2f& point)      *)
(* The point is an in/out parameter: in.point is its value before the      *)
(* call, out.point its value after it.  The specification calls the        *)
(* function a second time on the result of the first call.                 *)
(***************************************************************************)
\* points around the grid of the corners
ClipPoints == [x : (-1)..(MaxCoord + 1), y : (-1)..(MaxCoord + 1)]

\* float points with the coordinates n/2
HalfPoints ==
  {RPoint(Rat(a, 2), Rat(b, 2)) : a \in (-1)..(2 * MaxCoord + 1), b \in (-1)..(2 * MaxCoord + 1)}

\* mutant: clamping y to the top does not set the flag
clipPointInsideRectangleNoFlag(bottomLeftCorner, topRightCorner, point) ==
  LET x1 == IF point.x < bottomLeftCorner.x THEN bottomLeftCorner.x ELSE point.x
      c1 == point.x < bottomLeftCorner.x
      x2 == IF x1 > topRightCorner.x THEN topRightCorner.x ELSE x1
      c2 == c1 \/ x1 > topRightCorner.x
      y1 == IF point.y < bottomLeftCorner.y THEN bottomLeftCorner.y ELSE point.y
      c3 == c2 \/ point.y < bottomLeftCorner.y
      y2 == IF y1 > topRightCorner.y THEN topRightCorner.y ELSE y1
      c4 == c3
  IN  [ret |-> c4, point |-> Vec(x2, y2)]

\* Vector2i& point
clipPointInsideRectangle(bottomLeftCorner, topRightCorner, point) ==
  LET x1 == IF point.x < bottomLeftCorner.x THEN bottomLeftCorner.x ELSE point.x
      c1 == point.x < bottomLeftCorner.x
      x2 == IF x1 > topRightCorner.x THEN topRightCorner.x ELSE x1
      c2 == c1 \/ x1 > topRightCorner.x
      y1 == IF point.y < bottomLeftCorner.y THEN bottomLeftCorner.y ELSE point.y
      c3 == c2 \/ point.y < bottomLeftCorner.y
      y2 == IF y1 > topRightCorner.y THEN topRightCorner.y ELSE y1
      c4 == c3 \/ y1 > topRightCorner.y
  IN  [ret |-> c4, point |-> Vec(x2, y2)]

\* Vector2f& point: the comparisons convert the corner to float, the
\* assignments static_cast it
clipPointInsideRectangleF(bottomLeftCorner, topRightCorner, point) ==
  LET x1 == IF RLt(point.x, RInt(bottomLeftCorner.x)) THEN RInt(bottomLeftCorner.x) ELSE point.x
      c1 == RLt(point.x, RInt(bottomLeftCorner.x))
      x2 == IF RLt(RInt(topRightCorner.x), x1) THEN RInt(topRightCorner.x) ELSE x1
      c2 == c1 \/ RLt(RInt(topRightCorner.x), x1)
      y1 == IF RLt(point.y, RInt(bottomLeftCorner.y)) THEN RInt(bottomLeftCorner.y) ELSE point.y
      c3 == c2 \/ RLt(point.y, RInt(bottomLeftCorner.y))
      y2 == IF RLt(RInt(topRightCorner.y), y1) THEN RInt(topRightCorner.y) ELSE y1
      c4 == c3 \/ RLt(RInt(topRightCorner.y), y1)
  IN  [ret |-> c4, point |-> RPoint(x2, y2)]

InitClipRect ==
  /\ fn \in {"clipPointInsideRectangle", "clipPointInsideRectangleF"}
  /\ \E bl \in Points, tr \in Points :
       \E p \in (IF fn = "clipPointInsideRectangle" THEN ClipPoints ELSE HalfPoints) :
         in = [bottomLeftCorner |-> bl, topRightCorner |-> tr, point |-> p, original |-> p]
  /\ out = NoOut
  /\ pc = "call"

\* the first call
CallClipRect ==
  /\ pc = "call"
  /\ fn \in {"clipPointInsideRectangle", "clipPointInsideRectangleF"}
  /\ out' = IF fn = "clipPointInsideRectangle"
            THEN clipPointInsideRectangle(in.bottomLeftCorner, in.topRightCorner, in.point)
            ELSE clipPointInsideRectangleF(in.bottomLeftCorner, in.topRightCorner, in.point)
  /\ pc' = "done"
  /\ UNCHANGED <<fn, in>>

\* the second call, on the point the first call left
CallClipRectAgain ==
  /\ pc = "done"
  /\ fn \in {"clipPointInsideRectangle", "clipPointInsideRectangleF"}
  /\ in' = [in EXCEPT !.point = out.point]
  /\ out' = IF fn = "clipPointInsideRectangle"
            THEN clipPointInsideRectangle(in.bottomLeftCorner, in.topRightCorner, out.point)
            ELSE clipPointInsideRectangleF(in.bottomLeftCorner, in.topRightCorner, out.point)
  /\ pc' = "again"
  /\ UNCHANGED fn

NextClipRect == CallClipRect \/ CallClipRectAgain

SpecClipRect == InitClipRect /\ [][NextClipRect]_vars

\* v clamped to [lo, hi] for rationals
RClamp(v, lo, hi) == IF RLt(v, lo) THEN lo ELSE IF RLt(hi, v) THEN hi ELSE v

\* the coordinates of a point of either variant as rationals
AsRPoint(p) == IF fn = "clipPointInsideRectangle" THEN RPt(p) ELSE p

\* isPointInsideRectangle on a point of either variant
InsideRectangle(bl, tr, p) ==
  /\ RLe(RInt(bl.x), AsRPoint(p).x) /\ RLe(AsRPoint(p).x, RInt(tr.x))
  /\ RLe(RInt(bl.y), AsRPoint(p).y) /\ RLe(AsRPoint(p).y, RInt(tr.y))

\* C11: with bottomLeftCorner <= topRightCorner componentwise, after the call
\* each coordinate is the old one clamped to [min, max], the point is inside
\* the rectangle, the return value is true iff the point was changed, and a
\* second call on the result returns false and changes nothing.
C11_ClipRectContract ==
  (/\ fn \in {"clipPointInsideRectangle", "clipPointInsideRectangleF"}
   /\ in.bottomLeftCorner.x <= in.topRightCorner.x
   /\ in.bottomLeftCorner.y <= in.topRightCorner.y) =>
    LET bl == in.bottomLeftCorner
        tr == in.topRightCorner
    IN  /\ pc = "done" =>
             /\ AsRPoint(out.point).x = RClamp(AsRPoint(in.point).x, RInt(bl.x), RInt(tr.x))
             /\ AsRPoint(out.point).y = RClamp(AsRPoint(in.point).y, RInt(bl.y), RInt(tr.y))
             /\ InsideRectangle(bl, tr, out.point)
             /\ out.ret <=> (out.point # in.point)
        /\ pc = "again" =>
             /\ out.ret = FALSE
             /\ out.point = in.point

\* C11 witness: a point clamped in y only (to the top) by the first call,
\* after the second call
C11_Witness ==
  /\ fn \in {"clipPointInsideRectangle", "clipPointInsideRectangleF"}
  /\ pc = "again"
  /\ in.bottomLeftCorner.x < in.topRightCorner.x
  /\ in.bottomLeftCorner.y < in.topRightCorner.y
  /\ AsRPoint(in.original).x = AsRPoint(in.point).x
  /\ RLt(AsRPoint(in.point).y, AsRPoint(in.original).y)

\* C11: the float variant clamps a point with non-integer coordinates
C11_FloatClampReached ==
  /\ fn = "clipPointInsideRectangleF" /\ pc = "done"
  /\ in.bottomLeftCorner.x <= in.topRightCorner.x
  /\ in.bottomLeftCorner.y <= in.topRightCorner.y
  /\ in.point.x[2] = 2 /\ in.point.y[2] = 2
  /\ out.ret

(***************************************************************************)
(* Distances.  A distance is a float sgn * sqrt(sq) with an exact rational *)
(* radicand sq; two non-negative distances compare as their radicands do.  *)
(***************************************************************************)
Root(q) == [sgn |-> Sgn(q[1]), sq |-> q]

\* operator< and operator== of two non-negative distances
RootLt(a, b) == RLt(a.sq, b.sq)

RootEq(a, b) == REq(a.sq, b.sq)

\* Geometry::distance: (point2 - point1).norm()
distance(point1, point2) ==
  Root(RInt(Dot(Minus(point2, point1), Minus(point2, point1))))

\* Geometry::getDistanceToLineSigned: normal.dot(point) - normal.dot(base) for
\* the normal (direction.y, -direction.x) / |direction|
getDistanceToLineSigned(line, point) ==
  IF line.direction.x = 0 /\ line.direction.y = 0 THEN distance(point, line.base)
  ELSE
    LET n == line.direction.y * (point.x - line.base.x)
               - line.direction.x * (point.y - line.base.y)
        dd == Dot(line.direction, line.direction)
    IN  [sgn |-> Sgn(n), sq |-> Rat(n * n, dd)]

\* Geometry::getDistanceToLine: std::abs of the signed distance
getDistanceToLine(line, point) == Root(getDistanceToLineSigned(line, point).sq)

(***************************************************************************)
(* Geometry::getDistanceToEdge                                             *)
(***************************************************************************)
\* mutant: beyond the far end the perpendicular distance is returned
getDistanceToEdgeNoFarEnd(line, point) ==
  IF line.direction.x = 0 /\ line.direction.y = 0 THEN distance(point, line.base)
  ELSE
    LET d == Rat(Dot(Minus(point, line.base), line.direction),
                 Dot(line.direction, line.direction))
    IN  IF RLt(d, RInt(0)) THEN distance(point, line.base)
        ELSE getDistanceToLine(line, point)

getDistanceToEdge(line, point) ==
  IF line.direction.x = 0 /\ line.direction.y = 0 THEN distance(point, line.base)
  ELSE
    LET d == Rat(Dot(Minus(point, line.base), line.direction),
                 Dot(line.direction, line.direction))
    IN  IF RLt(d, RInt(0)) THEN distance(point, line.base)
        ELSE IF RLt(RInt(1), d)
             THEN distance(point, Vec(line.base.x + line.direction.x,
                                      line.base.y + line.direction.y))
        ELSE getDistanceToLine(line, point)

InitEdge ==
  /\ fn = "getDistanceToEdge"
  /\ in \in [line : [base : Bases, direction : EdgeDirs], point : Points]
  /\ out = NoOut
  /\ pc = "call"

\* both variants of the clamped projection on the same edge and point
CallEdge ==
  /\ pc = "call"
  /\ fn = "getDistanceToEdge"
  /\ out' = [ret |-> getDistanceToEdge(in.line, in.point),
             nearest |-> getOrthogonalProjectionOfPointOnEdge(
                           in.line.base, in.line.direction, in.point).ret]
  /\ pc' = "done"
  /\ UNCHANGED <<fn, in>>

SpecEdge == InitEdge /\ [][CallEdge]_vars

\* squared Euclidean distance of an integer point and a rational point
RSqDist(p, q) ==
  RAdd(RMul(RSub(q.x, RInt(p.x)), RSub(q.x, RInt(p.x))),
       RMul(RSub(q.y, RInt(p.y)), RSub(q.y, RInt(p.y))))

\* the perpendicular foot of p on the line through b with direction v # 0
Foot(b, v, p) ==
  RPoint(RAdd(RInt(b.x), Rat(v.x * Dot(Minus(p, b), v), Dot(v, v))),
         RAdd(RInt(b.y), Rat(v.y * Dot(Minus(p, b), v), Dot(v, v))))

\* C12: for an edge with a non-zero direction, getDistanceToEdge equals the
\* Euclidean distance from the point to the result of
\* getOrthogonalProjectionOfPointOnEdge, and both select the same case: base
\* when the parameter d < 0, base + direction when d > 1, the perpendicular
\* foot otherwise.
C12_EdgeVariantsAgree ==
  (/\ fn = "getDistanceToEdge" /\ pc = "done"
   /\ (in.line.direction.x # 0 \/ in.line.direction.y # 0)) =>
    LET b == in.line.base
        v == in.line.direction
        p == in.point
        t == Dot(Minus(p, b), v)
        far == Vec(b.x + v.x, b.y + v.y)
        target == IF t < 0 THEN RPt(b)
                  ELSE IF t > Dot(v, v) THEN RPt(far)
                  ELSE Foot(b, v, p)
    IN  /\ out.nearest = target
        /\ out.ret.sq = RSqDist(p, target)
        /\ out.ret.sq = RSqDist(p, out.nearest)
        /\ out.ret.sgn >= 0

\* C12 witness: a point beyond the far end of an edge and off its line
C12_Witness ==
  /\ fn = "getDistanceToEdge" /\ pc = "done"
  /\ (in.line.direction.x # 0 \/ in.line.direction.y # 0)
  /\ Dot(Minus(in.point, in.line.base), in.line.direction)
       > Dot(in.line.direction, in.line.direction)
  /\ Cross(Minus(in.point, in.line.base), in.line.direction) # 0

\* C12: a perpendicular foot with non-integer coordinates inside the edge
C12_FootReached ==
  /\ fn = "getDistanceToEdge" /\ pc = "done"
  /\ out.nearest.x[2] # 1
  /\ out.ret.sq[1] # 0

\* C12: a point before the base of the edge
C12_BeforeBaseReached ==
  /\ fn = "getDistanceToEdge" /\ pc = "done"
  /\ (in.line.direction.x # 0 \/ in.line.direction.y # 0)
  /\ Dot(Minus(in.point, in.line.base), in.line.direction) < 0
  /\ out.nearest = RPt(in.line.base)

(***************************************************************************)
(* Geometry::clipPointToPolygonBorder                                      *)
(* polygon[j] of the code is polygon[j + 1] here; n holds the index of the *)
(* first vertex of the nearest edge, Len(polygon) for the closing edge.    *)
(* The point is an in/out parameter: the result holds its value after the  *)
(* call, with rational coordinates.                                        *)
(***************************************************************************)
\* every sequence of MinVerts vertices (degenerate ones included), and the L
\* shapes
BorderPolygons ==
  {<<a, b, c>> : a \in EvenPoints, b \in EvenPoints, c \in EvenPoints} \cup LShapes

\* the for loop from edge j on
RECURSIVE nearestEdgeLoop(_, _, _, _, _)
nearestEdgeLoop(polygon, point, j, min, n) ==
  IF j > Len(polygon) - 1 THEN [min |-> min, n |-> n]
  ELSE
    LET e == getDistanceToEdge(Line(polygon[j], Minus(polygon[j + 1], polygon[j])), point)
    IN  IF RootLt(e, min)
        THEN nearestEdgeLoop(polygon, point, j + 1, e, j)
        ELSE nearestEdgeLoop(polygon, point, j + 1, min, n)

\* mutant: n starts at the first edge instead of the closing edge
clipPointToPolygonBorderFirstEdge(polygon, point) ==
  LET size == Len(polygon)
      first == getDistanceToEdge(Line(polygon[1], Minus(polygon[size], polygon[1])), point)
      found == nearestEdgeLoop(polygon, point, 1, first, 1)
      n == found.n
      clipped == getOrthogonalProjectionOfPointOnEdge(
                   polygon[n], Minus(polygon[IF n # size THEN n + 1 ELSE 1], polygon[n]), point)
  IN  IF found.min.sq[1] = 0
      THEN [ret |-> FALSE, point |-> RPt(point), divByZero |-> FALSE]
      ELSE [ret |-> TRUE, point |-> clipped.ret, divByZero |-> clipped.divByZero]

clipPointToPolygonBorder(polygon, point) ==
  LET size == Len(polygon)
      first == getDistanceToEdge(Line(polygon[1], Minus(polygon[size], polygon[1])), point)
      found == nearestEdgeLoop(polygon, point, 1, first, size)
      n == found.n
      clipped == getOrthogonalProjectionOfPointOnEdge(
                   polygon[n], Minus(polygon[IF n # size THEN n + 1 ELSE 1], polygon[n]), point)
  IN  IF found.min.sq[1] = 0
      THEN [ret |-> FALSE, point |-> RPt(point), divByZero |-> FALSE]
      ELSE [ret |-> TRUE, point |-> clipped.ret, divByZero |-> clipped.divByZero]

InitClipBorder ==
  /\ fn = "clipPointToPolygonBorder"
  /\ in \in [polygon : BorderPolygons]
  /\ out = NoOut
  /\ pc = "call"

CallClipBorder ==
  /\ pc = "call"
  /\ fn = "clipPointToPolygonBorder"
  /\ \E point \in QueryPoints :
       /\ in' = [polygon |-> in.polygon, point |-> point]
       /\ out' = clipPointToPolygonBorder(in.polygon, point)
  /\ pc' = "done"
  /\ UNCHANGED fn

SpecClipBorder == InitClipBorder /\ [][CallClipBorder]_vars

\* the rational point q lies on the closed segment from a to b
RPointOnSegment(a, b, q) == ROnSegment(q, Line(a, Minus(b, a)))

\* q lies on the border of V, the closing edge included
ROnBorder(V, q) == \E i \in 1..Len(V) : RPointOnSegment(V[i], V[NextIdx(V, i)], q)

\* the squared distance of p from the closed segment from a to b
SegDist2(a, b, p) ==
  LET t == Dot(Minus(p, a), Minus(b, a))
      l == Dot(Minus(b, a), Minus(b, a))
      c == Cross(Minus(p, a), Minus(b, a))
  IN  IF t <= 0 THEN RInt(Dot(Minus(p, a), Minus(p, a)))
      ELSE IF t >= l THEN RInt(Dot(Minus(p, b), Minus(p, b)))
      ELSE Rat(c * c, l)

\* no point of the border of V is closer to p than q
NearestOnBorder(V, p, q) ==
  \A i \in 1..Len(V) : RLe(RSqDist(p, q), SegDist2(V[i], V[NextIdx(V, i)], p))

\* C13: for a point not on the border of the polygon clipPointToPolygonBorder
\* returns true and replaces the point by a point of the border (closing edge
\* included) that no border point is closer to the original point than; for a
\* point on the border it returns false and leaves the point unchanged.
C13_ClipBorderContract ==
  (fn = "clipPointToPolygonBorder" /\ pc = "done") =>
    IF OnBoundary(in.polygon, in.point)
    THEN out.ret = FALSE /\ out.point = RPt(in.point)
    ELSE /\ out.ret = TRUE
         /\ ROnBorder(in.polygon, out.point)
         /\ NearestOnBorder(in.polygon, in.point, out.point)

\* C13 witness: the closing edge is strictly the nearest one and the point is
\* clipped to a point of it that is not a vertex
C13_Witness ==
  /\ fn = "clipPointToPolygonBorder" /\ pc = "done"
  /\ out.ret = TRUE
  /\ LET V == in.polygon
     IN  /\ \A i \in 1..(Len(V) - 1) :
               RLt(SegDist2(V[Len(V)], V[1], in.point), SegDist2(V[i], V[i + 1], in.point))
         /\ \A i \in 1..Len(V) : out.point # RPt(V[i])

\* C13: a point outside an L shape, in its notch, is clipped to the border
C13_NotchReached ==
  /\ fn = "clipPointToPolygonBorder" /\ pc = "done"
  /\ Len(in.polygon) = 6
  /\ ~OnBoundary(in.polygon, in.point)
  /\ ~Interior(in.polygon, in.point)
  /\ out.ret = TRUE

\* C13: a point on an edge that is not the first one tested
C13_OnBorderReached ==
  /\ fn = "clipPointToPolygonBorder" /\ pc = "done"
  /\ OnSegment(in.polygon[2], in.polygon[3], in.point)
  /\ ~OnSegment(in.polygon[1], in.polygon[2], in.point)
  /\ ~OnSegment(in.polygon[Len(in.polygon)], in.polygon[1], in.point)
  /\ out.ret = FALSE

\* C13: the nearest edge has coinciding end points
C13_ZeroEdgeReached ==
  /\ fn = "clipPointToPolygonBorder" /\ pc = "done"
  /\ out.divByZero

(***************************************************************************)
(* Geometry::clipPointInsidePolygon and Geometry::clipPointInsideConvexPolygon *)
(***************************************************************************)
\* simple polygons for clipPointInsidePolygon: the triangles and the L shapes
ClipPolygons == SimplePolygons(EvenPoints, MinVerts, TRUE) \cup LShapes

\* strictly convex polygons for clipPointInsideConvexPolygon: the triangles in
\* both vertex orders
ClipConvexPolygons ==
  ConvexPolygonsOf(EvenPoints, 1, MinVerts) \cup ConvexPolygonsOf(EvenPoints, -1, MinVerts)

\* mutant: the point is clipped to the border without the containment test
clipPointInsidePolygonAlways(polygon, point) ==
  [ret |-> TRUE, point |-> clipPointToPolygonBorder(polygon, point).point]

clipPointInsidePolygon(polygon, point) ==
  IF isPointInsidePolygon(point, polygon).ret
  THEN [ret |-> FALSE, point |-> RPt(point)]
  \* the result of clipPointToPolygonBorder is not used
  ELSE [ret |-> TRUE, point |-> clipPointToPolygonBorder(polygon, point).point]

clipPointInsideConvexPolygon(polygon, point) ==
  IF isPointInsideConvexPolygon(polygon, Len(polygon), point)
  THEN [ret |-> FALSE, point |-> RPt(point)]
  \* the result of clipPointToPolygonBorder is not used
  ELSE [ret |-> TRUE, point |-> clipPointToPolygonBorder(polygon, point).point]

InitClipInside ==
  /\ fn \in {"clipPointInsidePolygon", "clipPointInsideConvexPolygon"}
  /\ in \in [polygon : IF fn = "clipPointInsidePolygon" THEN ClipPolygons
                       ELSE ClipConvexPolygons]
  /\ out = NoOut
  /\ pc = "call"

CallClipInside ==
  /\ pc = "call"
  /\ fn = "clipPointInsidePolygon"
  /\ \E point \in QueryPoints :
       /\ in' = [polygon |-> in.polygon, point |-> point]
       /\ out' = clipPointInsidePolygon(in.polygon, point)
  /\ pc' = "done"
  /\ UNCHANGED fn

CallClipInsideConvex ==
  /\ pc = "call"
  /\ fn = "clipPointInsideConvexPolygon"
  /\ \E point \in QueryPoints :
       /\ in' = [polygon |-> in.polygon, point |-> point]
       /\ out' = clipPointInsideConvexPolygon(in.polygon, point)
  /\ pc' = "done"
  /\ UNCHANGED fn

NextClipInside == CallClipInside \/ CallClipInsideConvex

SpecClipInside == InitClipInside /\ [][NextClipInside]_vars

\* what the containment test of the called variant reports for the point
ReportedInside ==
  IF fn = "clipPointInsidePolygon" THEN isPointInsidePolygon(in.point, in.polygon).ret
  ELSE isPointInsideConvexPolygon(in.polygon, Len(in.polygon), in.point)

\* C14: clipPointInsidePolygon and clipPointInsideConvexPolygon leave the point
\* unchanged and return false when their containment test reports the point
\* inside; otherwise the point afterwards lies on the border of the polygon,
\* at the border point nearest to the original point.
C14_ClipInsideContract ==
  (fn \in {"clipPointInsidePolygon", "clipPointInsideConvexPolygon"} /\ pc = "done") =>
    IF ReportedInside
    THEN out.ret = FALSE /\ out.point = RPt(in.point)
    ELSE /\ ROnBorder(in.polygon, out.point)
         /\ NearestOnBorder(in.polygon, in.point, out.point)

\* C14 witness: a point reported outside is moved to a border point that is
\* not a vertex
C14_Witness ==
  /\ fn \in {"clipPointInsidePolygon", "clipPointInsideConvexPolygon"} /\ pc = "done"
  /\ ~ReportedInside
  /\ out.point # RPt(in.point)
  /\ \A i \in 1..Len(in.polygon) : out.point # RPt(in.polygon[i])

\* C14: a point strictly inside is left alone, by either variant
C14_InsideReached ==
  /\ fn = "clipPointInsidePolygon" /\ pc = "done"
  /\ ReportedInside
  /\ ~OnBoundary(in.polygon, in.point)
  /\ out.ret = FALSE

C14_ConvexInsideReached ==
  /\ fn = "clipPointInsideConvexPolygon" /\ pc = "done"
  /\ ReportedInside
  /\ ~OnBoundary(in.polygon, in.point)
  /\ out.ret = FALSE

\* C19: the return value of clipPointInsidePolygon and of
\* clipPointInsideConvexPolygon is true iff the call changed the point; for a
\* point on the border of the polygon they do not return true.
C19_TrueIffChanged ==
  (fn \in {"clipPointInsidePolygon", "clipPointInsideConvexPolygon"} /\ pc = "done") =>
    /\ out.ret <=> (out.point # RPt(in.point))
    /\ OnBoundary(in.polygon, in.point) => out.ret = FALSE

\* C19: clipPointInsidePolygon returns true for a point on the border that it
\* did not change
C19_TrueUnchangedReached ==
  /\ fn = "clipPointInsidePolygon" /\ pc = "done"
  /\ OnBoundary(in.polygon, in.point)
  /\ out.ret = TRUE
  /\ out.point = RPt(in.point)

\* C19 for clipPointInsideConvexPolygon alone
C19_ConvexTrueIffChanged ==
  (fn = "clipPointInsideConvexPolygon" /\ pc = "done") =>
    /\ out.ret <=> (out.point # RPt(in.point))
    /\ OnBoundary(in.polygon, in.point) => out.ret = FALSE

(***************************************************************************)
(* Geometry::PixeledLine::calculatePixels                                  *)
(* The vector of pixels is out.pixels; out.i is the loop variable (x in    *)
(* the first loop, y in the second).  One action enters the function up to *)
(* the loop, one action is one iteration of the loop.                      *)
(*                                                                         *)
(* int is 32 bits wide.  A signed overflow of the product in the loop body *)
(* is undefined: the build either wraps it (two's complement) or traps.    *)
(* numberOfPixels / stepSize with stepSize = 0 is undefined: it traps, or  *)
(* yields some value and the function goes on.  std::vector::reserve of a  *)
(* negative number (converted to size_t) throws std::length_error.         *)
(***************************************************************************)
MaxStep == 3

\* the loop is followed for at most MaxPixels pixels
MaxPixels == 6

StepSizes == (-1)..MaxStep

\* INT_MAX = 2^31 - 1
IntMax == (2^30 - 1) + 2^30

Limb == 2^16

Huge == 2^30

\* two lines with end points far apart, next to the lines on the grid
HugeLines ==
  {[x1 |-> 0, y1 |-> 0, x2 |-> Huge + 2, y2 |-> Huge + 1],
   [x1 |-> 0, y1 |-> 0, x2 |-> -(Huge + 1), y2 |-> -(Huge + 2)]}

GridLines == {[x1 |-> p.x, y1 |-> p.y, x2 |-> q.x, y2 |-> q.y] : p \in Points, q \in Points}

\* int division: the quotient is truncated towards zero (b # 0, a # INT_MIN)
TruncDiv(a, b) == Sgn(a) * Sgn(b) * (Abs(a) \div Abs(b))

\* int product i * d of a loop variable 0 <= i < 2^15 and an int d, computed
\* in 16-bit limbs: |i * d| = hi * 2^16 + lo.  value is the product wrapped to
\* 32 bits, overflow tells that the exact product is not an int.
MulInt(i, d) ==
  LET m == Abs(d)
      lo0 == i * (m % Limb)
      hi == i * (m \div Limb) + (lo0 \div Limb)
      lo == lo0 % Limb
      fits == hi < 2^15 \/ (hi = 2^15 /\ lo = 0 /\ d < 0)
      whi == IF d >= 0 THEN hi % Limb
             ELSE IF lo = 0 THEN (-hi) % Limb
             ELSE (-hi - 1) % Limb
      wlo == IF d >= 0 \/ lo = 0 THEN lo ELSE Limb - lo
      shi == IF whi >= 2^15 THEN whi - Limb ELSE whi
  IN  [overflow |-> ~fits, value |-> shi * Limb + wlo]

\* the loop runs over x (|x2 - x1| > |y2 - y1|) or over y
OverX(l) == Abs(l.x2 - l.x1) > Abs(l.y2 - l.y1)

\* sign and numberOfPixels of the loop taken
sign(l) == IF OverX(l) THEN Sgn(l.x2 - l.x1) ELSE Sgn(l.y2 - l.y1)

numberOfPixels(l) ==
  IF OverX(l) THEN Abs(l.x2 - l.x1) + 1 ELSE Abs(l.y2 - l.y1) + 1

InitPixels ==
  /\ fn = "calculatePixels"
  /\ \E l \in GridLines \cup HugeLines, s \in StepSizes :
       in = [x1 |-> l.x1, y1 |-> l.y1, x2 |-> l.x2, y2 |-> l.y2, stepSize |-> s]
  /\ out = NoOut
  /\ pc = "call"

\* the function up to the first test of a loop condition
CallPixels ==
  /\ pc = "call"
  /\ fn = "calculatePixels"
  /\ IF in.x1 = in.x2 /\ in.y1 = in.y2
     THEN /\ out' = [pixels |-> <<Vec(in.x1, in.y1)>>, i |-> 0]
          /\ pc' = "done"
     ELSE /\ out' = [pixels |-> <<>>, i |-> 0]
          \* reserve(numberOfPixels / stepSize); then 0 < numberOfPixels
          /\ IF in.stepSize = 0 THEN pc' \in {"trapped", "loop"}
             ELSE IF TruncDiv(numberOfPixels(in), in.stepSize) < 0 THEN pc' = "thrown"
             ELSE pc' = "loop"
  /\ UNCHANGED <<fn, in>>

\* one iteration of the loop, and the test of the loop condition after it
LoopPixels ==
  /\ pc = "loop"
  /\ fn = "calculatePixels"
  /\ Len(out.pixels) < MaxPixels
  /\ LET product == MulInt(out.i, IF OverX(in) THEN in.y2 - in.y1 ELSE in.x2 - in.x1)
         other == TruncDiv(product.value,
                           IF OverX(in) THEN in.x2 - in.x1 ELSE in.y2 - in.y1)
         pixel == IF OverX(in)
                  THEN Vec(in.x1 + out.i * sign(in), in.y1 + other * sign(in))
                  ELSE Vec(in.x1 + other * sign(in), in.y1 + out.i * sign(in))
     IN  \/ /\ product.overflow
            /\ pc' = "trapped"
            /\ out' = out
         \/ /\ out' = [pixels |-> Append(out.pixels, pixel), i |-> out.i + in.stepSize]
            /\ pc' = IF out.i + in.stepSize < numberOfPixels(in) THEN "loop" ELSE "done"
  /\ UNCHANGED <<fn, in>>

NextPixels == CallPixels \/ LoopPixels

SpecPixels == InitPixels /\ [][NextPixels]_vars

\* max(|x2 - x1|, |y2 - y1|)
Extent(l) == IF OverX(l) THEN Abs(l.x2 - l.x1) ELSE Abs(l.y2 - l.y1)

\* the coordinate of p along the dominant axis of l, and the other one
Along(l, p) == IF OverX(l) THEN p.x ELSE p.y

Across(l, p) == IF OverX(l) THEN p.y ELSE p.x

\* the pixel p, k steps along the dominant axis from (x1, y1), is less than 1
\* off the exact line in the other axis: |o - k * dm / ext| < 1 for its offset
\* o; for products beyond int only that o is between 0 and k * sgn(dm)
NearLine(l, p, k) ==
  LET ext == Extent(l)
      dm == IF OverX(l) THEN l.y2 - l.y1 ELSE l.x2 - l.x1
      o == Across(l, p) - Across(l, Vec(l.x1, l.y1))
  IN  /\ Along(l, p) = Along(l, Vec(l.x1, l.y1)) + k * sign(l)
      /\ Abs(o) <= k
      /\ o * Sgn(dm) >= 0
      /\ k <= IntMax \div ext => Abs(o * ext - k * dm) < ext

\* the properties of the pixels of a line with step size 1: produced so far,
\* and when the function has returned
StepOneLine ==
  LET l == in
      P == out.pixels
  IN  /\ pc \notin {"trapped", "thrown"}
      /\ pc \in {"loop", "done"} =>
           /\ Len(P) >= 1 => P[1] = Vec(l.x1, l.y1)
           /\ (l.x1 # l.x2 \/ l.y1 # l.y2) =>
                /\ \A j \in 1..Len(P) : NearLine(l, P[j], j - 1)
                /\ \A j \in 1..(Len(P) - 1) :
                     /\ Abs(Along(l, P[j + 1]) - Along(l, P[j])) = 1
                     /\ Abs(Across(l, P[j + 1]) - Across(l, P[j])) <= 1
      /\ pc = "done" =>
           /\ Len(P) = Extent(l) + 1
           /\ P[Len(P)] = Vec(l.x2, l.y2)
           /\ (l.x1 = l.x2 /\ l.y1 = l.y2) => P = <<Vec(l.x1, l.y1)>>

\* C15: for any integer end points and step size 1 PixeledLine produces
\* exactly max(|x2-x1|, |y2-y1|) + 1 pixels, the first is (x1, y1), the last
\* is (x2, y2), consecutive pixels differ by exactly 1 in the dominant axis
\* and by at most 1 in the other, and every pixel is less than 1 off the exact
\* line in the minor axis; coinciding end points yield the pixel (x1, y1).
C15_StepOneContract ==
  (fn = "calculatePixels" /\ in.stepSize = 1) => StepOneLine

\* C15 restricted to end points on the grid (no product leaves int)
C15_GridLinesContract ==
  (/\ fn = "calculatePixels" /\ in.stepSize = 1
   /\ [x1 |-> in.x1, y1 |-> in.y1, x2 |-> in.x2, y2 |-> in.y2] \in GridLines) => StepOneLine

\* C15: a line on the grid that is neither axis-parallel nor diagonal, done
C15_SlopedLineReached ==
  /\ fn = "calculatePixels" /\ in.stepSize = 1 /\ pc = "done"
  /\ in.x2 < in.x1 /\ in.y2 > in.y1
  /\ Abs(in.x2 - in.x1) # Abs(in.y2 - in.y1)
  /\ Len(out.pixels) = 3

\* C15: the product overflows and the build wraps it
C15_WrappedReached ==
  /\ fn = "calculatePixels" /\ in.stepSize = 1 /\ pc = "loop"
  /\ Len(out.pixels) >= 1
  /\ ~NearLine(in, out.pixels[Len(out.pixels)], Len(out.pixels) - 1)

\* C15: the product overflows and the build traps
C15_TrappedReached ==
  fn = "calculatePixels" /\ in.stepSize = 1 /\ pc = "trapped"


\* the pixels of a line whose end points differ are produced by a loop that
\* ends: the call neither traps nor throws, every pixel produced has advanced
\* the loop variable (so it reaches numberOfPixels), and no more than
\* numberOfPixels pixels are produced
LoopEnds ==
  /\ pc \notin {"trapped", "thrown"}
  /\ (pc \in {"loop", "done"} /\ (in.x1 # in.x2 \/ in.y1 # in.y2)) =>
       /\ out.i >= Len(out.pixels)
       /\ Len(out.pixels) <= numberOfPixels(in)

\* the number of pixels of a finished line with step size s >= 1:
\* ceil((max(|x2-x1|, |y2-y1|) + 1) / s)
CountAtReturn ==
  (pc = "done" /\ in.stepSize >= 1 /\ (in.x1 # in.x2 \/ in.y1 # in.y2)) =>
    Len(out.pixels) = (Extent(in) + 1 + in.stepSize - 1) \div in.stepSize

\* C16: for any end points and any step size the construction of a
\* PixeledLine terminates with a finite sequence of pixels; for a step size
\* s >= 1 and differing end points it holds exactly
\* ceil((max(|x2-x1|, |y2-y1|) + 1) / s) pixels.
C16_TerminatesWithCount ==
  (fn = "calculatePixels") => (LoopEnds /\ CountAtReturn)

\* C16 restricted to end points on the grid and step sizes s >= 1
C16_GridLinesPositiveStep ==
  (/\ fn = "calculatePixels" /\ in.stepSize >= 1
   /\ [x1 |-> in.x1, y1 |-> in.y1, x2 |-> in.x2, y2 |-> in.y2] \in GridLines) =>
    (LoopEnds /\ CountAtReturn)

\* C16: a line with a step size that does not divide its number of pixels
C16_RoundedUpReached ==
  /\ fn = "calculatePixels" /\ pc = "done"
  /\ in.stepSize = 2
  /\ Extent(in) = 2
  /\ Len(out.pixels) = 2

\* C16: with step size 0 the loop goes on beyond the number of pixels
C16_ZeroStepReached ==
  /\ fn = "calculatePixels" /\ pc = "loop"
  /\ in.stepSize = 0
  /\ Len(out.pixels) > numberOfPixels(in)

\* C16: with step size 0 the division traps
C16_ZeroStepTrapReached ==
  fn = "calculatePixels" /\ pc = "trapped" /\ in.stepSize = 0

\* C16: with a negative step size reserve throws
C16_ThrownReached ==
  fn = "calculatePixels" /\ pc = "thrown" /\ in.stepSize < 0

(***************************************************************************)
(* Geometry::getCircle                                                     *)
(* The int coordinates are converted to float; radius is                   *)
(* 0.5f * sqrt(q) = sqrt(q / 4), kept as a distance with radicand q / 4.   *)
(***************************************************************************)
sqr(a) == a * a

\* mutant: the y coordinate of the center is divided by -2 temp like the x
\* coordinate
getCircleYSign(point1, point2, point3) ==
  LET x1 == point1.x
      y1 == point1.y
      x2 == point2.x
      y2 == point2.y
      x3 == point3.x
      y3 == point3.y
      temp == x2 * y1 - x3 * y1 - x1 * y2 + x3 * y2 + x1 * y3 - x2 * y3
  IN  [radius |->
         IF temp = 0 THEN Root(RInt(0))
         ELSE Root(Rat((sqr(x1 - x2) + sqr(y1 - y2)) *
                       (sqr(x1 - x3) + sqr(y1 - y3)) *
                       (sqr(x2 - x3) + sqr(y2 - y3)), 4 * sqr(temp))),
       center |->
         RPoint(IF temp = 0 THEN RInt(0)
                ELSE Rat(sqr(x3) * (y1 - y2) +
                         (sqr(x1) + (y1 - y2) * (y1 - y3)) * (y2 - y3) +
                         sqr(x2) * (-y1 + y3),
                         -2 * temp),
                IF temp = 0 THEN RInt(0)
                ELSE Rat(sqr(x1) * (x2 - x3) +
                         sqr(x2) * x3 +
                         x3 * (-sqr(y1) + sqr(y2)) -
                         x2 * (sqr(x3) - sqr(y1) + sqr(y3)) +
                         x1 * (-sqr(x2) + sqr(x3) - sqr(y2) + sqr(y3)),
                         -2 * temp)),
       divByZero |-> FALSE]

\* mutant: center.x is computed without the test of temp
getCircleNoGuard(point1, point2, point3) ==
  LET x1 == point1.x
      y1 == point1.y
      x2 == point2.x
      y2 == point2.y
      x3 == point3.x
      y3 == point3.y
      temp == x2 * y1 - x3 * y1 - x1 * y2 + x3 * y2 + x1 * y3 - x2 * y3
  IN  [radius |->
         IF temp = 0 THEN Root(RInt(0))
         ELSE Root(Rat((sqr(x1 - x2) + sqr(y1 - y2)) *
                       (sqr(x1 - x3) + sqr(y1 - y3)) *
                       (sqr(x2 - x3) + sqr(y2 - y3)), 4 * sqr(temp))),
       center |->
         RPoint(IF temp = 0 THEN <<1, 0>>
                ELSE Rat(sqr(x3) * (y1 - y2) +
                         (sqr(x1) + (y1 - y2) * (y1 - y3)) * (y2 - y3) +
                         sqr(x2) * (-y1 + y3),
                         -2 * temp),
                IF temp = 0 THEN RInt(0)
                ELSE Rat(sqr(x1) * (x2 - x3) +
                         sqr(x2) * x3 +
                         x3 * (-sqr(y1) + sqr(y2)) -
                         x2 * (sqr(x3) - sqr(y1) + sqr(y3)) +
                         x1 * (-sqr(x2) + sqr(x3) - sqr(y2) + sqr(y3)),
                         2 * temp)),
       divByZero |-> temp = 0]

getCircle(point1, point2, point3) ==
  LET x1 == point1.x
      y1 == point1.y
      x2 == point2.x
      y2 == point2.y
      x3 == point3.x
      y3 == point3.y
      temp == x2 * y1 - x3 * y1 - x1 * y2 + x3 * y2 + x1 * y3 - x2 * y3
  IN  [radius |->
         IF temp = 0 THEN Root(RInt(0))
         ELSE Root(Rat((sqr(x1 - x2) + sqr(y1 - y2)) *
                       (sqr(x1 - x3) + sqr(y1 - y3)) *
                       (sqr(x2 - x3) + sqr(y2 - y3)), 4 * sqr(temp))),
       center |->
         RPoint(IF temp = 0 THEN RInt(0)
                ELSE Rat(sqr(x3) * (y1 - y2) +
                         (sqr(x1) + (y1 - y2) * (y1 - y3)) * (y2 - y3) +
                         sqr(x2) * (-y1 + y3),
                         -2 * temp),
                IF temp = 0 THEN RInt(0)
                ELSE Rat(sqr(x1) * (x2 - x3) +
                         sqr(x2) * x3 +
                         x3 * (-sqr(y1) + sqr(y2)) -
                         x2 * (sqr(x3) - sqr(y1) + sqr(y3)) +
                         x1 * (-sqr(x2) + sqr(x3) - sqr(y2) + sqr(y3)),
                         2 * temp)),
       \* every division is in an else branch of a test of temp
       divByZero |-> FALSE]

InitGetCircle ==
  /\ fn = "getCircle"
  /\ in \in [point1 : Points, point2 : Points, point3 : Points]
  /\ out = NoOut
  /\ pc = "call"

CallGetCircle ==
  /\ pc = "call"
  /\ fn = "getCircle"
  /\ out' = getCircle(in.point1, in.point2, in.point3)
  /\ pc' = "done"
  /\ UNCHANGED <<fn, in>>

SpecGetCircle == InitGetCircle /\ [][CallGetCircle]_vars

\* the three points lie on one line (coinciding points included)
Collinear(a, b, c) == Cross(Minus(b, a), Minus(c, a)) = 0

\* C17: for three non-collinear integer points the center returned by
\* getCircle has the same squared distance to all three points, and that
\* squared distance is the square of the returned radius.
C17_Circumcircle ==
  (/\ fn = "getCircle" /\ pc = "done"
   /\ ~Collinear(in.point1, in.point2, in.point3)) =>
    /\ RSqDist(in.point1, out.center) = RSqDist(in.point2, out.center)
    /\ RSqDist(in.point2, out.center) = RSqDist(in.point3, out.center)
    /\ out.radius.sq = RSqDist(in.point1, out.center)
    /\ out.radius.sgn = 1

\* C17 witness: a triangle without a right angle, whose circumcenter is none
\* of the midpoints of its sides and has a coordinate that is not an integer
C17_Witness ==
  /\ fn = "getCircle" /\ pc = "done"
  /\ ~Collinear(in.point1, in.point2, in.point3)
  /\ Dot(Minus(in.point2, in.point1), Minus(in.point3, in.point1)) # 0
  /\ Dot(Minus(in.point1, in.point2), Minus(in.point3, in.point2)) # 0
  /\ Dot(Minus(in.point1, in.point3), Minus(in.point2, in.point3)) # 0
  /\ out.center.y[2] # 1

\* C18: getCircle returns radius 0 and center (0,0) iff the three points are
\* collinear (coinciding points included) or the circumscribed circle is
\* itself the circle of radius 0 at the origin; no division is performed in
\* the collinear case.
C18_ZeroCircleIffCollinear ==
  (fn = "getCircle" /\ pc = "done") =>
    LET zero == out.radius.sq = RInt(0) /\ out.center = RPt(Vec(0, 0))
        circumZero ==
          /\ ~Collinear(in.point1, in.point2, in.point3)
          /\ RSqDist(in.point1, RPt(Vec(0, 0))) = RInt(0)
          /\ RSqDist(in.point2, RPt(Vec(0, 0))) = RInt(0)
          /\ RSqDist(in.point3, RPt(Vec(0, 0))) = RInt(0)
    IN  /\ zero <=> (Collinear(in.point1, in.point2, in.point3) \/ circumZero)
        /\ Collinear(in.point1, in.point2, in.point3) => ~out.divByZero

\* C18 witness: three distinct collinear points away from the origin
C18_Witness ==
  /\ fn = "getCircle" /\ pc = "done"
  /\ Collinear(in.point1, in.point2, in.point3)
  /\ in.point1 # in.point2 /\ in.point2 # in.point3 /\ in.point1 # in.point3
  /\ in.point1 # Vec(0, 0) /\ in.point2 # Vec(0, 0) /\ in.point3 # Vec(0, 0)
  /\ out.radius.sq = RInt(0) /\ out.center = RPt(Vec(0, 0))

\* C18: a circle through the origin with its center on an axis
C18_ThroughOriginReached ==
  /\ fn = "getCircle" /\ pc = "done"
  /\ ~Collinear(in.point1, in.point2, in.point3)
  /\ in.point1 = Vec(0, 0)
  /\ out.center.x = RInt(0)
  /\ out.radius.sgn = 1

(***************************************************************************)
(* Geometry::checkIntersectionOfLines                                      *)
(***************************************************************************)
\* mutant: the first product must be negative
checkIntersectionOfLinesStrict(l1p1, l1p2, l2p1, l2p2) ==
  /\ ccw(l1p1, l1p2, l2p1) * ccw(l1p1, l1p2, l2p2) < 0
  /\ ccw(l2p1, l2p2, l1p1) * ccw(l2p1, l2p2, l1p2) <= 0

checkIntersectionOfLines(l1p1, l1p2, l2p1, l2p2) ==
  /\ ccw(l1p1, l1p2, l2p1) * ccw(l1p1, l1p2, l2p2) <= 0
  /\ ccw(l2p1, l2p2, l1p1) * ccw(l2p1, l2p2, l1p2) <= 0

\* a grid with four points in a row, for collinear segments that overlap or
\* lie apart
CheckPoints == [x : 0..(MaxCoord + 1), y : 0..(MaxCoord + 1)]

InitCheckLines ==
  /\ fn = "checkIntersectionOfLines"
  /\ in \in [l1p1 : CheckPoints, l1p2 : CheckPoints, l2p1 : CheckPoints, l2p2 : CheckPoints]
  /\ out = NoOut
  /\ pc = "call"

CallCheckLines ==
  /\ pc = "call"
  /\ fn = "checkIntersectionOfLines"
  /\ out' = [ret |-> checkIntersectionOfLines(in.l1p1, in.l1p2, in.l2p1, in.l2p2)]
  /\ pc' = "done"
  /\ UNCHANGED <<fn, in>>

SpecCheckLines == InitCheckLines /\ [][CallCheckLines]_vars

\* C20: for two segments with distinct end points checkIntersectionOfLines is
\* true iff the closed segments share a point (touching end points and
\* collinear overlap included), and the result is the same with the two
\* segments swapped and with the end points of either segment swapped.
C20_SegmentsIntersect ==
  (/\ fn = "checkIntersectionOfLines" /\ pc = "done"
   /\ in.l1p1 # in.l1p2 /\ in.l2p1 # in.l2p2) =>
    /\ out.ret = SegsTouch(in.l1p1, in.l1p2, in.l2p1, in.l2p2)
    /\ out.ret = checkIntersectionOfLines(in.l2p1, in.l2p2, in.l1p1, in.l1p2)
    /\ out.ret = checkIntersectionOfLines(in.l1p2, in.l1p1, in.l2p1, in.l2p2)
    /\ out.ret = checkIntersectionOfLines(in.l1p1, in.l1p2, in.l2p2, in.l2p1)

\* C20 witness: two collinear segments that overlap in more than a point, none
\* containing the other
C20_Witness ==
  /\ fn = "checkIntersectionOfLines" /\ pc = "done"
  /\ in.l1p1 # in.l1p2 /\ in.l2p1 # in.l2p2
  /\ Collinear(in.l1p1, in.l1p2, in.l2p1) /\ Collinear(in.l1p1, in.l1p2, in.l2p2)
  /\ OnSegment(in.l1p1, in.l1p2, in.l2p1) /\ ~OnSegment(in.l1p1, in.l1p2, in.l2p2)
  /\ in.l2p1 # in.l1p1 /\ in.l2p1 # in.l1p2
  /\ out.ret = TRUE

\* C20: collinear segments apart from each other
C20_CollinearApartReached ==
  /\ fn = "checkIntersectionOfLines" /\ pc = "done"
  /\ in.l1p1 # in.l1p2 /\ in.l2p1 # in.l2p2
  /\ Collinear(in.l1p1, in.l1p2, in.l2p1) /\ Collinear(in.l1p1, in.l1p2, in.l2p2)
  /\ out.ret = FALSE

\* C20: the end point of one segment lies inside the other one (a T)
C20_TouchReached ==
  /\ fn = "checkIntersectionOfLines" /\ pc = "done"
  /\ in.l1p1 # in.l1p2 /\ in.l2p1 # in.l2p2
  /\ ~Collinear(in.l1p1, in.l1p2, in.l2p2)
  /\ OnSegment(in.l1p1, in.l1p2, in.l2p1)
  /\ in.l2p1 # in.l1p1 /\ in.l2p1 # in.l1p2
  /\ out.ret = TRUE

\* C20: a segment next to the line of the other one, past its end
C20_PastEndReached ==
  /\ fn = "checkIntersectionOfLines" /\ pc = "done"
  /\ in.l1p1 # in.l1p2 /\ in.l2p1 # in.l2p2
  /\ Collinear(in.l1p1, in.l1p2, in.l2p1)
  /\ ~OnSegment(in.l1p1, in.l1p2, in.l2p1)
  /\ ~Collinear(in.l1p1, in.l1p2, in.l2p2)
  /\ out.ret = FALSE

(***************************************************************************)
(* LogExtractor::goThroughLog                                              *)
(* in.log is the sequence of messages of logPlayer, a message being its id *)
(* and, for idFrameBegin, the frame type it holds.  in.representations is  *)
(* the set of keys of the map; the callers build it from representation    *)
(* types, so it holds neither idFrameBegin nor idFrameFinished.            *)
(* out.pos is the position of the range-based for loop, out.frameType and  *)
(* out.filled are the locals; out.calls records the invocations of         *)
(* executeAction: the position of the message, the argument, the result.   *)
(* One action is one iteration of the loop.                                *)
(***************************************************************************)
MaxLog == 4

FrameTypes == {"Cognition", "Motion"}

RepresentationIDs == {"idJointAngles", "idFrameInfo"}

Messages ==
  [id : {"idFrameBegin"}, frameType : FrameTypes]
    \cup [id : {"idFrameFinished"} \cup RepresentationIDs, frameType : {""}]

Logs == UNION {[1..n -> Messages] : n \in 0..MaxLog}

\* mutant: idFrameBegin does not reset filled
goThroughLogBodyNoReset(message, representations, frameType, filled) ==
  IF message.id \in representations
  THEN [frameType |-> frameType, filled |-> TRUE, invoke |-> FALSE]
  ELSE IF message.id = "idFrameBegin"
  THEN [frameType |-> message.frameType, filled |-> filled, invoke |-> FALSE]
  ELSE IF message.id = "idFrameFinished" /\ filled
  THEN [frameType |-> frameType, filled |-> filled, invoke |-> TRUE]
  ELSE [frameType |-> frameType, filled |-> filled, invoke |-> FALSE]

\* the body of the loop for one message: the new values of the locals, and
\* whether executeAction(frameType) is invoked
goThroughLogBody(message, representations, frameType, filled) ==
  IF message.id \in representations
  THEN [frameType |-> frameType, filled |-> TRUE, invoke |-> FALSE]
  ELSE IF message.id = "idFrameBegin"
  THEN [frameType |-> message.frameType, filled |-> FALSE, invoke |-> FALSE]
  ELSE IF message.id = "idFrameFinished" /\ filled
  THEN [frameType |-> frameType, filled |-> filled, invoke |-> TRUE]
  ELSE [frameType |-> frameType, filled |-> filled, invoke |-> FALSE]

InitGoThroughLog ==
  /\ fn = "goThroughLog"
  /\ in \in [log : Logs, representations : SUBSET RepresentationIDs]
  /\ out = NoOut
  /\ pc = "call"

\* the declarations of the locals
CallGoThroughLog ==
  /\ pc = "call"
  /\ fn = "goThroughLog"
  /\ out' = [pos |-> 1, frameType |-> "", filled |-> FALSE, calls |-> <<>>]
  /\ pc' = "loop"
  /\ UNCHANGED <<fn, in>>

\* an iteration that does not invoke executeAction
ReadMessage ==
  /\ pc = "loop"
  /\ fn = "goThroughLog"
  /\ out.pos <= Len(in.log)
  /\ LET body == goThroughLogBody(in.log[out.pos], in.representations,
                                  out.frameType, out.filled)
     IN  /\ ~body.invoke
         /\ out' = [pos |-> out.pos + 1, frameType |-> body.frameType,
                    filled |-> body.filled, calls |-> out.calls]
  /\ pc' = "loop"
  /\ UNCHANGED <<fn, in>>

\* an iteration that invokes executeAction, which returns true or false
InvokeAction ==
  /\ pc = "loop"
  /\ fn = "goThroughLog"
  /\ out.pos <= Len(in.log)
  /\ LET body == goThroughLogBody(in.log[out.pos], in.representations,
                                  out.frameType, out.filled)
     IN  /\ body.invoke
         /\ \E result \in BOOLEAN :
              LET call == [at |-> out.pos, frameType |-> body.frameType, result |-> result]
              IN  IF result
                  THEN /\ out' = [pos |-> out.pos + 1, frameType |-> body.frameType,
                                  filled |-> body.filled, calls |-> Append(out.calls, call)]
                       /\ pc' = "loop"
                  ELSE /\ out' = [pos |-> out.pos, frameType |-> body.frameType,
                                  filled |-> body.filled, calls |-> Append(out.calls, call),
                                  ret |-> FALSE]
                       /\ pc' = "done"
  /\ UNCHANGED <<fn, in>>

\* the end of the log
ReturnTrue ==
  /\ pc = "loop"
  /\ fn = "goThroughLog"
  /\ out.pos > Len(in.log)
  /\ out' = [pos |-> out.pos, frameType |-> out.frameType, filled |-> out.filled,
             calls |-> out.calls, ret |-> TRUE]
  /\ pc' = "done"
  /\ UNCHANGED <<fn, in>>

NextGoThroughLog == CallGoThroughLog \/ ReadMessage \/ InvokeAction \/ ReturnTrue

SpecGoThroughLog == InitGoThroughLog /\ [][NextGoThroughLog]_vars

\* the position of the most recent idFrameBegin before position k, 0 if none
RECURSIVE LastFrameBegin(_, _)
LastFrameBegin(log, k) ==
  IF k <= 1 THEN 0
  ELSE IF log[k - 1].id = "idFrameBegin" THEN k - 1
  ELSE LastFrameBegin(log, k - 1)

\* the message at k is an idFrameFinished with a registered message read
\* since the most recent idFrameBegin (since the start of the log if none)
FrameToExport(log, representations, k) ==
  /\ log[k].id = "idFrameFinished"
  /\ \E j \in (LastFrameBegin(log, k) + 1)..(k - 1) : log[j].id \in representations

\* the frame type read from the most recent idFrameBegin before k; nothing
\* has been read into the (empty) string without one
FrameTypeAt(log, k) ==
  IF LastFrameBegin(log, k) = 0 THEN "" ELSE log[LastFrameBegin(log, k)].frameType

\* the messages read so far: all before out.pos, and the one at out.pos when
\* the function returned from there
LastRead == IF pc = "done" /\ out.ret = FALSE THEN out.pos ELSE out.pos - 1

\* C21: goThroughLog invokes executeAction exactly at the idFrameFinished
\* messages for which a message with a registered ID was read since the most
\* recent idFrameBegin, passes the frame type read from that idFrameBegin,
\* reads the messages in log order, stops and returns false at the first
\* invocation that returns false, and otherwise returns true after the last
\* message.
C21_InvocationsInLogOrder ==
  (fn = "goThroughLog" /\ pc \in {"loop", "done"}) =>
    LET log == in.log
        calls == out.calls
    IN  \* exactly the frames to export among the messages read, in log order
        /\ {calls[c].at : c \in 1..Len(calls)}
             = {k \in 1..LastRead : FrameToExport(log, in.representations, k)}
        /\ \A c \in 1..(Len(calls) - 1) : calls[c].at < calls[c + 1].at
        /\ \A c \in 1..Len(calls) : calls[c].frameType = FrameTypeAt(log, calls[c].at)
        \* nothing is read or invoked after a result of false
        /\ \A c \in 1..(Len(calls) - 1) : calls[c].result = TRUE
        /\ (Len(calls) > 0 /\ calls[Len(calls)].result = FALSE) =>
             /\ pc = "done" /\ out.ret = FALSE
             /\ out.pos = calls[Len(calls)].at
        /\ pc = "done" =>
             /\ out.ret = FALSE <=> (Len(calls) > 0 /\ calls[Len(calls)].result = FALSE)
             /\ out.ret = TRUE => out.pos = Len(log) + 1

\* C21: the loop reads one message after the other
C21_ReadsInOrder ==
  [][(fn = "goThroughLog" /\ pc = "loop") =>
       \/ out'.pos = out.pos + 1 /\ pc' = "loop"
       \/ out'.pos = out.pos /\ pc' = "done"]_vars

\* C21 witness: a frame with a registered representation is exported, the
\* next frame without one is not, and the function returns true
C21_Witness ==
  /\ fn = "goThroughLog" /\ pc = "done"
  /\ out.ret = TRUE
  /\ Len(out.calls) = 1
  /\ \E k \in 1..Len(in.log) :
       /\ k > out.calls[1].at
       /\ in.log[k].id = "idFrameFinished"
       /\ LastFrameBegin(in.log, k) > out.calls[1].at

\* C21: the first invocation returns false before the end of the log
C21_StoppedReached ==
  /\ fn = "goThroughLog" /\ pc = "done"
  /\ out.ret = FALSE
  /\ out.pos < Len(in.log)
  /\ \E k \in (out.pos + 1)..Len(in.log) : FrameToExport(in.log, in.representations, k)

\* C21: two idFrameFinished messages after one idFrameBegin are both exported
C21_TwiceReached ==
  /\ fn = "goThroughLog" /\ pc = "done"
  /\ Len(out.calls) = 2
  /\ LastFrameBegin(in.log, out.calls[1].at) = LastFrameBegin(in.log, out.calls[2].at)
  /\ LastFrameBegin(in.log, out.calls[1].at) > 0

\* C21: a registered message before any idFrameBegin: executeAction gets the
\* empty frame type
C21_NoFrameBeginReached ==
  /\ fn = "goThroughLog" /\ pc = "done"
  /\ Len(out.calls) = 1
  /\ out.calls[1].frameType = ""

(***************************************************************************)
(* All functions of the model together.                                    *)
(***************************************************************************)
Init ==
  \/ InitCcw
  \/ InitLines
  \/ InitCircles
  \/ InitLineCircle
  \/ InitProjEdge
  \/ InitRays
  \/ InitScan
  \/ InitConvex
  \/ InitSimple
  \/ InitCircleRect
  \/ InitClipRect
  \/ InitEdge
  \/ InitClipBorder
  \/ InitClipInside
  \/ InitPixels
  \/ InitGetCircle
  \/ InitCheckLines
  \/ InitGoThroughLog

Next ==
  \/ CallCcw
  \/ CallLines
  \/ CallCircles
  \/ CallLineCircle
  \/ CallProjEdge
  \/ CallRays
  \/ CallScan
  \/ CallConvex
  \/ CallSimple
  \/ CallCircleRect
  \/ NextClipRect
  \/ CallEdge
  \/ CallClipBorder
  \/ NextClipInside
  \/ NextPixels
  \/ CallGetCircle
  \/ CallCheckLines
  \/ NextGoThroughLog

Spec == Init /\ [][Next]_vars

====
